---------------------------- MODULE Spec2Model ----------------------------
(***************************************************************************)
(* agent-chime: the notification delivery pipeline.                        *)
(*                                                                         *)
(*   ModelRegistry / ModelSelector   src/agent_chime/tts/models.py,        *)
(*                                   src/agent_chime/system/model_selector.py *)
(*   AudioCache                      src/agent_chime/audio/cache.py        *)
(*   TTSProvider                     src/agent_chime/tts/provider.py       *)
(*   AudioRenderer                   src/agent_chime/audio/renderer.py     *)
(*   notify speech flow              src/agent_chime/cli.py                *)
(*                                                                         *)
(* Each component has its own specification (SpecSelect, SpecCache,        *)
(* SpecProvider, SpecRenderer, SpecNotify); the variables of the other     *)
(* components stay at their idle values.                                   *)
(*                                                                         *)
(* Units: memory is counted in tenths of a GB (7.0 GB is 70); time is a    *)
(* counter that grows by one with every reading of the clock.              *)
(***************************************************************************)
EXTENDS Integers, Sequences, FiniteSets, TLC

\* Python's None, where a string is expected and where a record is expected.
None == "None"

Null == [none |-> TRUE]

Max(a, b) == IF a >= b THEN a ELSE b

Min(a, b) == IF a <= b THEN a ELSE b

\* dict helpers: a dict is a function whose DOMAIN is its key set.
EmptyDict == [k \in {} |-> None]

DictDel(d, k) == [x \in (DOMAIN d) \ {k} |-> d[x]]

DictSet(d, k, v) == [x \in (DOMAIN d) \cup {k} |-> IF x = k THEN v ELSE d[x]]

(***************************************************************************)
(* Bounds of the model.                                                    *)
(***************************************************************************)
\* Largest available memory a host reports, in tenths of a GB (17.0 GB).
MaxAvail == 170

\* Longest audio byte string.
MaxAudioLen == 1

\* Largest max_entries and max_size_bytes an AudioCache is configured with.
MaxEntriesCap == 2

MaxSizeCap == 2

\* The last clock reading the model follows; the AudioCache is constructed
\* at time 1.
MaxTime == 3

\* synthesize() calls followed on one TTSProvider.
MaxSynthCalls == 2

\* notify requests followed on one cache directory.
MaxNotify == 2

\* The longest text given to _limit_length.
MaxTextLen == 240

\* Volumes asked for go from -MaxVolume to MaxVolume tenths.
MaxVolume == 15

\* Player processes started and scratch names made by one AudioRenderer.
MaxProcs == 2

MaxScratch == 2

(***************************************************************************)
(* ModelRegistry: tts/models.py                                            *)
(***************************************************************************)
ModelTier == {"VOICE_DESIGN", "SPARK", "SPARK_QUANTIZED", "POCKET"}

MODELS ==
  [t \in ModelTier |->
     CASE t = "VOICE_DESIGN" ->
            [model_id |-> "mlx-community/Qwen3-TTS-12Hz-1.7B-VoiceDesign-bf16",
             estimated_memory_gb |-> 70, default_voice |-> "",
             requires_metal |-> TRUE, lang_code |-> "en"]
       [] t = "SPARK" ->
            [model_id |-> "mlx-community/Spark-TTS-0.5B-bf16",
             estimated_memory_gb |-> 30, default_voice |-> "",
             requires_metal |-> TRUE, lang_code |-> "en"]
       [] t = "SPARK_QUANTIZED" ->
            [model_id |-> "mlx-community/Spark-TTS-0.5B-8bit",
             estimated_memory_gb |-> 20, default_voice |-> "",
             requires_metal |-> TRUE, lang_code |-> "en"]
       [] t = "POCKET" ->
            [model_id |-> "mlx-community/pocket-tts",
             estimated_memory_gb |-> 10, default_voice |-> "",
             requires_metal |-> FALSE, lang_code |-> "en"]]

\* A quality order that starts with SPARK.
QualityOrderSparkFirst ==
  <<"SPARK", "VOICE_DESIGN", "SPARK_QUANTIZED", "POCKET">>

QUALITY_ORDER == <<"VOICE_DESIGN", "SPARK", "SPARK_QUANTIZED", "POCKET">>

\* The tier whose spec has this model_id, or None.
get_model_by_id(model_id) ==
  IF \E t \in ModelTier : MODELS[t].model_id = model_id
  THEN CHOOSE t \in ModelTier : MODELS[t].model_id = model_id
  ELSE None

get_fallback_model == MODELS["POCKET"]

(***************************************************************************)
(* ModelSelector: system/model_selector.py                                 *)
(***************************************************************************)
MEMORY_BUFFER_GB == 20

SelectionMode == {"AUTO", "MANUAL"}

\* Python truthiness of an optional string.
Truthy(s) == s # None /\ s # ""

SelectionResult(tier, reason, system_info) ==
  [model |-> MODELS[tier], tier |-> tier, reason |-> reason,
   system_info |-> system_info]

\* A CanRun that forgets the memory check.
CanRunNoMemoryCheck(spec, system_info, usable_memory) ==
  ~(spec.requires_metal /\ ~system_info.metal_available)

\* A CanRun whose Metal check is inverted.
CanRunMetalInverted(spec, system_info, usable_memory) ==
  /\ ~(spec.estimated_memory_gb > usable_memory)
  /\ ~(spec.requires_metal /\ system_info.metal_available)

CanRun(spec, system_info, usable_memory) ==
  /\ ~(spec.estimated_memory_gb > usable_memory)
  /\ ~(spec.requires_metal /\ ~system_info.metal_available)

\* estimated <= usable * 0.5 and estimated <= usable * 0.8, in integers.
GetSelectionReason(spec, usable_memory, system_info) ==
  LET ram == IF 10 * spec.estimated_memory_gb <= 5 * usable_memory
               THEN "plenty of RAM"
             ELSE IF 10 * spec.estimated_memory_gb <= 8 * usable_memory
               THEN "sufficient RAM"
             ELSE "fits in RAM"
  IN  IF spec.requires_metal /\ system_info.metal_available
        THEN ram \o ", Metal available"
        ELSE ram

\* The tiers of QUALITY_ORDER that can run, by position.
FittingPositions(system_info, usable_memory) ==
  {i \in 1..Len(QUALITY_ORDER) :
     CanRun(MODELS[QUALITY_ORDER[i]], system_info, usable_memory)}

\* A FirstPosition that takes the last fit of the loop, not the first.
FirstPositionLast(S) == CHOOSE i \in S : \A j \in S : i >= j

FirstPosition(S) == CHOOSE i \in S : \A j \in S : i <= j

\* An AutoSelect without the final fallback: the last tier is taken as
\* if it had fitted.
AutoSelectLastTierAsFit(system_info, usable_memory) ==
  LET fits == FittingPositions(system_info, usable_memory)
      tier == IF fits # {} THEN QUALITY_ORDER[FirstPosition(fits)]
              ELSE QUALITY_ORDER[Len(QUALITY_ORDER)]
  IN  SelectionResult(tier,
        GetSelectionReason(MODELS[tier], usable_memory, system_info),
        system_info)

AutoSelect(system_info, usable_memory) ==
  LET fits == FittingPositions(system_info, usable_memory)
  IN  IF fits # {}
        THEN LET tier == QUALITY_ORDER[FirstPosition(fits)]
             IN  SelectionResult(tier,
                   GetSelectionReason(MODELS[tier], usable_memory, system_info),
                   system_info)
        ELSE SelectionResult("POCKET", "fallback (resource constraints)",
                             system_info)

\* A TryUserPreference that returns a registered model without asking
\* whether it can run.
TryUserPreferenceNoFitCheck(model_id, system_info, usable_memory) ==
  LET tier == get_model_by_id(model_id)
  IN  IF tier = None THEN Null
      ELSE SelectionResult(tier, "user preference", system_info)

\* A SelectionResult, or Null.
TryUserPreference(model_id, system_info, usable_memory) ==
  LET tier == get_model_by_id(model_id)
  IN  IF tier = None THEN Null
      ELSE IF CanRun(MODELS[tier], system_info, usable_memory)
        THEN SelectionResult(tier, "user preference", system_info)
      ELSE Null

\* select(), given what detect() returned.
Select(user_preference, mode, system_info) ==
  LET usable_memory == Max(0, system_info.available_memory_gb - MEMORY_BUFFER_GB)
      pref == IF Truthy(user_preference) /\ mode = "MANUAL"
                THEN TryUserPreference(user_preference, system_info, usable_memory)
                ELSE Null
  IN  IF pref # Null THEN pref
      ELSE AutoSelect(system_info, usable_memory)

(***************************************************************************)
(* The hosts and requests the selector is run on.                          *)
(***************************************************************************)
\* Available memory on a 0.5 GB grid.
AvailSet == {a \in 0..MaxAvail : a % 5 = 0}

SystemInfoSet ==
  [available_memory_gb : AvailSet, metal_available : BOOLEAN]

PreferenceSet ==
  {None, "", "unknown/model"} \cup {MODELS[t].model_id : t \in ModelTier}

(***************************************************************************)
(* AudioCache: audio/cache.py                                              *)
(*                                                                         *)
(* The cache directory is a dict from paths to file contents.  The index  *)
(* is a dict from keys to CacheEntry records; created_at is left out, the  *)
(* code never reads it.  A cache state s is a record                       *)
(*   index, files : the two dicts                                          *)
(*   log          : the evictions of the running put, each with the index  *)
(*                  it was taken from                                      *)
(*   hung         : the put's first eviction loop never ends               *)
(***************************************************************************)
\* sha256(content).hexdigest()[:16], taken as free of collisions.
Digest(content) == "sha256:" \o content

\* content = f"{text}|{voice}|{model}"
KeyContent(text, voice, model) == text \o "|" \o voice \o "|" \o model

CacheKey(text, voice, model) == Digest(KeyContent(text, voice, model))

\* cache_dir / f"{key}.wav", and Path.stem.
CachePath(key) == [stem |-> key, suffix |-> ".wav"]

Stem(path) == path.stem

CacheEntry(path, text, voice, model, size_bytes, last_accessed) ==
  [path |-> path, text |-> text, voice |-> voice, model |-> model,
   size_bytes |-> size_bytes, last_accessed |-> last_accessed]

RECURSIVE SumSizes(_, _)
SumSizes(index, keys) ==
  IF keys = {} THEN 0
  ELSE LET k == CHOOSE x \in keys : TRUE
       IN  index[k].size_bytes + SumSizes(index, keys \ {k})

\* AudioCache.size_bytes and AudioCache.entry_count.
SizeBytes(index) == SumSizes(index, DOMAIN index)

EntryCount(index) == Cardinality(DOMAIN index)

\* A choice of "oldest" that takes the most recently accessed entries.
NewestKeys(index) ==
  {k \in DOMAIN index :
     \A j \in DOMAIN index :
       index[k].last_accessed >= index[j].last_accessed}

\* min(self._index, key=last_accessed): the keys min() may return; among
\* equal times it returns the first in dict order, which for entries loaded
\* from the directory is the order of glob().
OldestKeys(index) ==
  {k \in DOMAIN index :
     \A j \in DOMAIN index :
       index[k].last_accessed <= index[j].last_accessed}

\* An _evict_oldest that forgets the entry and leaves its file.
EvictOldestKeepsFile(s) ==
  IF DOMAIN s.index = {}
    THEN {[st |-> s, size |-> 0]}
    ELSE {[st |-> [s EXCEPT
                     !.index = DictDel(s.index, k),
                     !.log = Append(s.log, [key |-> k, index |-> s.index,
                                            unlinked |-> TRUE])],
           size |-> s.index[k].size_bytes] : k \in OldestKeys(s.index)}

\* _evict_oldest: the possible results, each with the size it returns.
\* unlink may fail (OSError, passed over): the file then stays.
EvictOldest(s) ==
  IF DOMAIN s.index = {}
    THEN {[st |-> s, size |-> 0]}
    ELSE {[st |-> [s EXCEPT
                     !.index = DictDel(s.index, k),
                     !.files = IF unlink_ok THEN DictDel(s.files, s.index[k].path)
                               ELSE s.files,
                     !.log = Append(s.log, [key |-> k, index |-> s.index,
                                            unlinked |-> unlink_ok])],
           size |-> s.index[k].size_bytes] :
            k \in OldestKeys(s.index), unlink_ok \in BOOLEAN}

\* while len(self._index) >= self.max_entries: self._evict_oldest()
\* With an empty index the loop goes on for ever (max_entries <= 0).
RECURSIVE EntryCountLoop(_, _)
EntryCountLoop(s, max_entries) ==
  IF EntryCount(s.index) >= max_entries
    THEN IF DOMAIN s.index = {}
           THEN {[s EXCEPT !.hung = TRUE]}
           ELSE UNION {EntryCountLoop(r.st, max_entries) : r \in EvictOldest(s)}
    ELSE {s}

\* while current_size + new_size > self.max_size_bytes and self._index:
\*     current_size -= self._evict_oldest()
RECURSIVE SizeLoop(_, _, _, _)
SizeLoop(s, current_size, new_size, max_size_bytes) ==
  IF current_size + new_size > max_size_bytes /\ DOMAIN s.index # {}
    THEN UNION {SizeLoop(r.st, current_size - r.size, new_size, max_size_bytes) :
                  r \in EvictOldest(s)}
    ELSE {s}

\* _evict_if_needed: current_size is summed before the first loop.
EvictIfNeeded(s, new_size, max_entries_, max_size_bytes_) ==
  LET current_size == SizeBytes(s.index)
  IN  UNION {IF s1.hung THEN {s1}
             ELSE SizeLoop(s1, current_size, new_size, max_size_bytes_) :
               s1 \in EntryCountLoop(s, max_entries_)}

\* path.write_bytes(audio) that cuts the audio short.
WriteBytesTruncated(files_, path, audio) ==
  DictSet(files_, path, IF audio = <<>> THEN audio ELSE Tail(audio))

\* path.write_bytes(audio)
WriteBytes(files_, path, audio) == DictSet(files_, path, audio)

\* A put that makes the index entry although the write has failed.
PutIndexesAnyway(s, clock, text, voice, model, audio, write_ok, max_entries_, max_size_bytes_) ==
  LET key == CacheKey(text, voice, model)
      path == CachePath(key)
      entry == CacheEntry(path, text, voice, model, Len(audio), clock)
  IN  {IF s1.hung THEN s1
       ELSE IF ~write_ok THEN [s1 EXCEPT !.index = DictSet(s1.index, key, entry)]
       ELSE [s1 EXCEPT !.files = WriteBytes(s1.files, path, audio),
                       !.index = DictSet(s1.index, key, entry)] :
         s1 \in EvictIfNeeded(s, Len(audio), max_entries_, max_size_bytes_)}

\* put: the possible states when it returns (or hangs).  clock is the value
\* time.time() returns for the new entry.  write_ok = FALSE: write_bytes
\* raises OSError before anything is written; logged, index left alone.
Put(s, clock, text, voice, model, audio, write_ok, max_entries_, max_size_bytes_) ==
  LET key == CacheKey(text, voice, model)
      path == CachePath(key)
  IN  {IF s1.hung \/ ~write_ok THEN s1
       ELSE [s1 EXCEPT
               !.files = WriteBytes(s1.files, path, audio),
               !.index = DictSet(s1.index, key,
                           CacheEntry(path, text, voice, model, Len(audio), clock))] :
         s1 \in EvictIfNeeded(s, Len(audio), max_entries_, max_size_bytes_)}

\* A get that returns None for a deleted file and keeps the stale entry.
GetKeepsStale(index_, files_, clock, text, voice, model, read_ok) ==
  LET key == CacheKey(text, voice, model)
  IN  IF key \notin DOMAIN index_ \/ index_[key].path \notin DOMAIN files_
        THEN [index |-> index_, ticked |-> FALSE, ret |-> Null]
      ELSE [index |-> [index_ EXCEPT ![key].last_accessed = clock],
            ticked |-> TRUE,
            ret |-> IF read_ok THEN [bytes |-> files_[index_[key].path]]
                    ELSE Null]

\* get: the index afterwards, whether the clock was read, and the value
\* returned: Null for None, [bytes |-> b] for bytes b.
Get(index_, files_, clock, text, voice, model, read_ok) ==
  LET key == CacheKey(text, voice, model)
  IN  IF key \notin DOMAIN index_
        THEN [index |-> index_, ticked |-> FALSE, ret |-> Null]
      ELSE IF index_[key].path \notin DOMAIN files_
        THEN [index |-> DictDel(index_, key), ticked |-> FALSE, ret |-> Null]
      ELSE [index |-> [index_ EXCEPT ![key].last_accessed = clock],
            ticked |-> TRUE,
            ret |-> IF read_ok THEN [bytes |-> files_[index_[key].path]]
                    ELSE Null]

\* A _load_index that keys the entries by the file's name, suffix and all.
LoadIndexKeyedByName(files_, atime) ==
  [k \in {Stem(p) \o p.suffix : p \in DOMAIN files_} |->
     LET path == CHOOSE p \in DOMAIN files_ : Stem(p) \o p.suffix = k
     IN  CacheEntry(path, "", "", "", Len(files_[path]), atime[path])]

\* _load_index: one entry for every *.wav file, keyed by its stem, with
\* placeholders for text, voice and model and the file's st_atime.
LoadIndex(files_, atime) ==
  [k \in {Stem(p) : p \in DOMAIN files_} |->
     CacheEntry(CachePath(k), "", "", "", Len(files_[CachePath(k)]),
                atime[CachePath(k)])]

(***************************************************************************)
(* What the cache is run on.                                               *)
(***************************************************************************)
ByteSet == {0, 1}

\* The byte strings put into the cache: the empty one, every single byte,
\* and the longer runs of zeros.
AudioSet ==
  {<<>>} \cup {<<b>> : b \in ByteSet}
         \cup {[i \in 1..n |-> 0] : n \in 2..MaxAudioLen}

CacheTexts == {"a", "b"}

CacheVoices == {"v"}

CacheModels == {"m"}

\* Files in the cache directory when the AudioCache is constructed: one
\* written by an earlier instance, one of another origin.
PrePaths == {CachePath(CacheKey("a", "v", "m")), CachePath("0123456789abcdef")}

PreAudio == {<<1>>}

\* The st_atime of such a file: before the construction, or at it.
PreTimes == {0, 1}

(***************************************************************************)
(* TTSProvider: tts/provider.py                                            *)
(*                                                                         *)
(* self._model_spec is held as the tier of the spec (None before the       *)
(* selection).  The engine, mlx-audio's generate_audio, is outside the     *)
(* repository: an invocation ends in one of EngineOutcomes.                *)
(***************************************************************************)
\* What generate_audio does with file_prefix:
\*   raises          it raises
\*   wrote_000       it writes <prefix>_000.wav
\*   wrote_plain     it writes <prefix>.wav, over the placeholder
\*   wrote_nothing   it returns without writing
\*   removed_output  it returns, <prefix>.wav gone and nothing written
EngineOutcomes ==
  {"raises", "wrote_000", "wrote_plain", "wrote_nothing", "removed_output"}

\* What the engine writes.
EngineAudio == {<<0>>, <<1>>}

\* One call of _generate_with_model.  installed = FALSE: the import of
\* mlx_audio fails, TTSError before any file is made.  leftover: the scratch
\* files of the call that still exist when it ends.
GenerateWithModel(installed, tier, voice, outcome, audio) ==
  LET call == [model |-> MODELS[tier].model_id,
               voice |-> IF Truthy(voice) THEN voice ELSE None,
               engine_called |-> installed, ok |-> FALSE, audio |-> <<>>,
               error |-> None, leftover |-> {}]
  IN  IF ~installed THEN [call EXCEPT !.error = "TTSError"]
      ELSE CASE outcome = "raises" -> [call EXCEPT !.error = "Exception"]
             [] outcome = "wrote_000" ->
                  [call EXCEPT !.ok = TRUE, !.audio = audio,
                               !.leftover = {"output_path"}]
             [] outcome = "wrote_plain" ->
                  [call EXCEPT !.ok = TRUE, !.audio = audio]
             [] outcome = "wrote_nothing" -> [call EXCEPT !.ok = TRUE]
             [] outcome = "removed_output" -> [call EXCEPT !.error = "TTSError"]

\* _get_voice
GetVoice(voice, tier) ==
  IF Truthy(voice) THEN voice
  ELSE IF tier # None /\ Truthy(MODELS[tier].default_voice)
    THEN MODELS[tier].default_voice
  ELSE None

\* A retry whatever the failing model is.
NeedsFallbackAlways(tier) == TRUE

\* if self._model_spec.model_id != fallback.model_id
NeedsFallback(tier) == MODELS[tier].model_id # get_fallback_model.model_id

\* The tier with this spec.
TierOf(spec) == CHOOSE t \in ModelTier : MODELS[t] = spec

\* A synthesize whose retry leaves self._model_spec as it was.
SynthesizeKeepsModel(model_spec_, model_id, voice, installed, host, detect_ok, outcome1, audio1, outcome2, audio2) ==
  LET selects == model_spec_ = None
      mode == IF ~selects THEN None
              ELSE IF Truthy(model_id) THEN "MANUAL" ELSE "AUTO"
      base == [result |-> "ok", audio |-> <<>>, model_spec |-> model_spec_,
               selected |-> selects, mode |-> mode, calls |-> <<>>]
  IN  IF selects /\ ~detect_ok
        THEN [base EXCEPT !.result = "FileNotFoundError"]
      ELSE
        LET tier == IF selects THEN Select(model_id, mode, host).tier
                      ELSE model_spec_
            first == GenerateWithModel(installed, tier, GetVoice(voice, tier),
                                       outcome1, audio1)
            fallback == TierOf(get_fallback_model)
            second == GenerateWithModel(installed, fallback,
                                        MODELS[fallback].default_voice,
                                        outcome2, audio2)
        IN  IF first.ok
              THEN [base EXCEPT !.audio = first.audio, !.model_spec = tier,
                                !.calls = <<first>>]
            ELSE IF NeedsFallback(tier)
              THEN [base EXCEPT
                      !.result = IF second.ok THEN "ok" ELSE "TTSError",
                      !.audio = second.audio,
                      !.model_spec = tier,
                      !.calls = <<first, second>>]
            ELSE [base EXCEPT !.result = "TTSError", !.model_spec = tier,
                              !.calls = <<first>>]

\* synthesize: the result ("ok", "TTSError", or the exception detect() let
\* through), the bytes returned, self._model_spec afterwards, whether
\* select() was called, and the calls of _generate_with_model in order.
\* detect_ok = FALSE: detect() raises (sysctl is not on the host).
Synthesize(model_spec_, model_id, voice, installed, host, detect_ok, outcome1, audio1, outcome2, audio2) ==
  LET selects == model_spec_ = None
      mode == IF ~selects THEN None
              ELSE IF Truthy(model_id) THEN "MANUAL" ELSE "AUTO"
      base == [result |-> "ok", audio |-> <<>>, model_spec |-> model_spec_,
               selected |-> selects, mode |-> mode, calls |-> <<>>]
  IN  IF selects /\ ~detect_ok
        THEN [base EXCEPT !.result = "FileNotFoundError"]
      ELSE
        LET tier == IF selects THEN Select(model_id, mode, host).tier
                      ELSE model_spec_
            first == GenerateWithModel(installed, tier, GetVoice(voice, tier),
                                       outcome1, audio1)
            fallback == TierOf(get_fallback_model)
            second == GenerateWithModel(installed, fallback,
                                        MODELS[fallback].default_voice,
                                        outcome2, audio2)
        IN  IF first.ok
              THEN [base EXCEPT !.audio = first.audio, !.model_spec = tier,
                                !.calls = <<first>>]
            ELSE IF NeedsFallback(tier)
              THEN [base EXCEPT
                      !.result = IF second.ok THEN "ok" ELSE "TTSError",
                      !.audio = second.audio,
                      !.model_spec = fallback,
                      !.calls = <<first, second>>]
            ELSE [base EXCEPT !.result = "TTSError", !.model_spec = tier,
                              !.calls = <<first>>]

\* The hosts a provider runs on: 2.5 GB without Metal, 4.5 GB and 16 GB
\* with it.
ProviderHosts ==
  {[available_memory_gb |-> 25, metal_available |-> FALSE],
   [available_memory_gb |-> 45, metal_available |-> TRUE],
   [available_memory_gb |-> 160, metal_available |-> TRUE]}

ProviderVoices == {None, "alba"}

SynthTexts == {"Ready."}

(***************************************************************************)
(* The notify speech flow: cli.py, _synthesize_and_play                    *)
(***************************************************************************)
DEFAULT_MAX_SIZE_MB == 100

DEFAULT_MAX_ENTRIES == 1000

\* self.max_size_bytes = max_size_mb * 1024 * 1024
MaxSizeBytes(max_size_mb) == max_size_mb * 1024 * 1024

\* The results synthesize() can have on a new TTSProvider in environment env,
\* over everything the engine can do.
SynthResults(env) ==
  {Synthesize(None, env.model_id, env.voice, env.installed, env.host,
              env.detect_ok, outcome1, audio1, outcome2, audio2) :
     outcome1 \in EngineOutcomes, audio1 \in EngineAudio,
     outcome2 \in EngineOutcomes, audio2 \in EngineAudio}

\* What renderer.play can do in a request: play, raise PlaybackError (afplay
\* is missing or fails), or raise the OSError of the scratch file's write.
PlayResults == {"ok", "PlaybackError", "OSError"}

\* What renderer.play_earcon can do: return True, return False (no earcon
\* file), or let the PlaybackError of _play_file through.
PlayEarconResults == {"True", "False", "PlaybackError"}

\* The except TTSError branch: 0 if play_earcon returns True, else 1.  This
\* one takes every earcon result as a success.
EarconStatusAlwaysZero(e) == 0

EarconStatus(e) == IF e = "True" THEN 0 ELSE 1

\* _synthesize_and_play(text, config, model_override) with the cache
\* directory holding files_: the possible outcomes.  env.model_id is
\* model_override or config.tts.model, env.voice is config.tts.voice.
\*   source   "cache": the cached bytes were given to play
\*            "synth": the synthesized bytes were
\*            "earcon": TTSError, play_earcon(AGENT_YIELD)
\*            "raised": an exception other than TTSError and PlaybackError
\*   given    the bytes handed to renderer.play (Null: none)
\*   calls    the calls of _generate_with_model
\*   stored   put wrote the audio
\*   hit      cache.get returned bytes
\*   trace    the calls made, in order
\*   rend     what the renderer call did (None: there was none)
\*   exc      the exception that leaves the function (None: it returns)
\*   status   the value returned, 1 when an exception leaves
\* The AudioCache is new in every request, with the default limits; atime
\* is the st_atime of the files.
SynthesizeAndPlay(files_, atime, env, text, r, read_ok, write_ok) ==
  LET index0 == LoadIndex(files_, atime)
      model_id == env.model_id
      voice == IF Truthy(env.voice) THEN env.voice ELSE "alba"
      model_for_cache == IF Truthy(model_id) THEN model_id ELSE "auto"
      cached == Get(index0, files_, 1, text, voice, model_for_cache, read_ok)
      base == [text |-> text, source |-> "cache", given |-> Null,
               calls |-> <<>>, stored |-> FALSE, files |-> files_,
               status |-> 0, cache_model |-> model_for_cache,
               hit |-> cached.ret # Null, trace |-> <<"get">>,
               rend |-> None, exc |-> None]
      Played(o, p) ==
        [o EXCEPT !.trace = Append(o.trace, "play"), !.rend = p,
                  !.exc = IF p = "OSError" THEN p ELSE None,
                  !.status = IF p = "ok" THEN 0 ELSE 1]
  IN  IF cached.ret # Null /\ cached.ret.bytes # <<>>
        THEN {Played([base EXCEPT !.given = cached.ret], p) : p \in PlayResults}
      ELSE IF r.result = "FileNotFoundError"
        THEN {[base EXCEPT !.source = "raised", !.status = 1,
                           !.trace = <<"get", "synthesize">>,
                           !.exc = r.result]}
      ELSE IF r.result = "TTSError"
        THEN {[base EXCEPT !.source = "earcon", !.calls = r.calls,
                           !.trace = <<"get", "synthesize", "play_earcon">>,
                           !.rend = e,
                           !.exc = IF e = "PlaybackError" THEN e ELSE None,
                           !.status = EarconStatus(e)] :
               e \in PlayEarconResults}
      ELSE
        LET actual_model == IF r.model_spec # None
                              THEN MODELS[r.model_spec].model_id
                              ELSE "unknown"
        IN  {Played([base EXCEPT !.source = "synth",
                                 !.given = [bytes |-> r.audio],
                                 !.calls = r.calls, !.stored = write_ok,
                                 !.files = s.files,
                                 !.cache_model = actual_model,
                                 !.trace = <<"get", "synthesize", "put">>], p) :
               s \in Put([index |-> cached.index, files |-> files_,
                          log |-> <<>>, hung |-> FALSE],
                         2, text, voice, actual_model, r.audio, write_ok,
                         DEFAULT_MAX_ENTRIES, MaxSizeBytes(DEFAULT_MAX_SIZE_MB)),
               p \in PlayResults}

NotifyTexts == {"Ready.", "Done."}

NotifyModels ==
  {None, "unknown/model", MODELS["VOICE_DESIGN"].model_id,
   MODELS["POCKET"].model_id}

NotifyEnvs ==
  [model_id : NotifyModels, voice : ProviderVoices, installed : BOOLEAN,
   host : ProviderHosts, detect_ok : BOOLEAN]

(***************************************************************************)
(* AudioRenderer: audio/renderer.py                                        *)
(*                                                                         *)
(* A player process is "running" until it exits; kill() sends SIGKILL and  *)
(* returns without waiting, so the process may be "dying" for a while      *)
(* after it.  The files are the scratch files of tempfile.mktemp, whose    *)
(* names are never used twice, and the earcon file.                        *)
(***************************************************************************)
NoProcess == 0

ScratchPath(n) == [dir |-> "tmp", name |-> n]

EarconPath == [dir |-> "earcons", name |-> 0]

EarconBytes == <<1, 1>>

Threads == {"t1", "t2"}

RendAudio == {<<0>>, <<1>>}

Alive(procs_) == {p \in DOMAIN procs_ : procs_[p] # "exited"}

ScratchFiles(fs_) == DOMAIN fs_ \ {EarconPath}

\* An exists() that finds every file.
EarconExistsAlways(fs_) == TRUE

\* earcon_path.exists()
EarconExists(fs_) == EarconPath \in DOMAIN fs_

\* _stop_current on the renderer state r.
\*   gone       the player has exited within the second after terminate(),
\*              or is gone when kill() returns; FALSE: it has been sent
\*              SIGKILL and is not gone yet
\*   unlink_ok  unlink does not raise OSError
StopCurrent(r, gone, unlink_ok) ==
  [r EXCEPT
     !.procs = IF r.current_process # NoProcess
                    /\ r.procs[r.current_process] = "running"
                 THEN [r.procs EXCEPT ![r.current_process] =
                         IF gone THEN "exited" ELSE "dying"]
                 ELSE r.procs,
     !.current_process = NoProcess,
     !.fs = IF r.temp_file # Null /\ unlink_ok
              THEN DictDel(r.fs, r.temp_file) ELSE r.fs,
     !.temp_file = Null]

\* subprocess.Popen / subprocess.run starting the player: the new process.
Spawn(r) ==
  [r EXCEPT !.procs = DictSet(r.procs, r.next_pid + 1, "running"),
            !.next_pid = r.next_pid + 1]

\* tempfile.mktemp: a name no file has.
Mktemp(r) ==
  [r EXCEPT !.temp_file = ScratchPath(r.next_path + 1),
            !.next_path = r.next_path + 1]

\* _play_file(path, blocking) up to the start of the player.  result:
\*   "PlaybackError"  the file is not there, or afplay is not (spawn_ok FALSE)
\*   "run"            blocking: subprocess.run has started the child
\*   "ok"             not blocking: the handle holds the new process
PlayFile(r, path, blocking, spawn_ok) ==
  IF path \notin DOMAIN r.fs \/ ~spawn_ok
    THEN [st |-> r, result |-> "PlaybackError", child |-> NoProcess]
  ELSE IF blocking
    THEN [st |-> Spawn(r), result |-> "run", child |-> r.next_pid + 1]
  ELSE [st |-> [Spawn(r) EXCEPT !.current_process = r.next_pid + 1],
        result |-> "ok", child |-> r.next_pid + 1]

\* play, from the lock to the start of the player.  write_ok = FALSE:
\* write_bytes raises OSError.
Play(r, audio, blocking, gone, unlink_ok, write_ok, spawn_ok) ==
  LET r1 == Mktemp(StopCurrent(r, gone, unlink_ok))
  IN  IF ~write_ok THEN [st |-> r1, result |-> "OSError", child |-> NoProcess]
      ELSE PlayFile([r1 EXCEPT !.fs = DictSet(r1.fs, r1.temp_file, audio)],
                    r1.temp_file, blocking, spawn_ok)

\* A play_streaming that takes a new scratch name for every chunk.
PlayStreamingFreshFile(r, audio, write_ok, spawn_ok) ==
  LET r1 == Mktemp(r)
  IN  IF ~write_ok THEN [st |-> r1, result |-> "OSError", child |-> NoProcess]
      ELSE
        LET r2 == [r1 EXCEPT !.fs = DictSet(r1.fs, r1.temp_file, audio)]
        IN  IF r2.current_process = NoProcess
                 \/ r2.procs[r2.current_process] = "exited"
              THEN PlayFile(r2, r2.temp_file, FALSE, spawn_ok)
              ELSE [st |-> r2, result |-> "ok", child |-> NoProcess]

\* play_streaming
PlayStreaming(r, audio, write_ok, spawn_ok) ==
  LET r1 == IF r.temp_file = Null THEN Mktemp(r) ELSE r
  IN  IF ~write_ok THEN [st |-> r1, result |-> "OSError", child |-> NoProcess]
      ELSE
        LET r2 == [r1 EXCEPT !.fs = DictSet(r1.fs, r1.temp_file, audio)]
        IN  IF r2.current_process = NoProcess
                 \/ r2.procs[r2.current_process] = "exited"
              THEN PlayFile(r2, r2.temp_file, FALSE, spawn_ok)
              ELSE [st |-> r2, result |-> "ok", child |-> NoProcess]

\* play_earcon, from the lock to the start of the player.
PlayEarcon(r, blocking, gone, unlink_ok, spawn_ok) ==
  PlayFile(StopCurrent(r, gone, unlink_ok), EarconPath,
           blocking, spawn_ok)

(***************************************************************************)
(* SystemDetector: system/detector.py                                      *)
(*                                                                         *)
(* The probes of a host, p:                                                *)
(*   sysctl      the sysctl executable is there (FALSE: subprocess.run     *)
(*               raises FileNotFoundError)                                 *)
(*   memsize     `sysctl -n hw.memsize`: "nonzero" exit, "unparsable"      *)
(*               output, or "ok" with memsize_value                        *)
(*   brand       `sysctl -n machdep.cpu.brand_string`: "nonzero" or "ok"   *)
(*   profiler    system_profiler: "absent", "nonzero", or its output with  *)
(*               a Chip line ("chip") or without one ("nochip")            *)
(*   mlx         import mlx.core and metal.is_available(): "import_error", *)
(*               "raises", "true", "false"                                 *)
(*   psutil_total, psutil_available   psutil.virtual_memory()              *)
(* Memory is in tenths of a GB.                                            *)
(***************************************************************************)
SystemInfo(total_memory_gb, available_memory_gb, metal_available, chip_name) ==
  [total_memory_gb |-> total_memory_gb,
   available_memory_gb |-> available_memory_gb,
   metal_available |-> metal_available, chip_name |-> chip_name]

Returns(value) == [raised |-> None, value |-> value]

Raises(exception) == [raised |-> exception, value |-> None]

\* subprocess.run(["sysctl", ...], check=True)
SysctlRun(p, outcome) ==
  IF ~p.sysctl THEN Raises("FileNotFoundError")
  ELSE IF outcome = "nonzero" THEN Raises("CalledProcessError")
  ELSE Returns(outcome)

\* _get_total_memory
GetTotalMemory(p) ==
  LET run == SysctlRun(p, p.memsize)
  IN  IF run.raised = "CalledProcessError" \/
         (run.raised = None /\ run.value = "unparsable")
        THEN [raised |-> None, value |-> p.psutil_total]
      ELSE IF run.raised # None THEN [raised |-> run.raised, value |-> 0]
      ELSE [raised |-> None, value |-> p.memsize_value]

\* _get_available_memory
GetAvailableMemory(p) == p.psutil_available

\* _check_metal
CheckMetal(p) == p.mlx = "true"

\* _get_chip_name
GetChipName(p) ==
  LET run == SysctlRun(p, p.brand)
  IN  IF run.raised = None THEN Returns(p.brand_string)
      ELSE IF run.raised # "CalledProcessError" THEN Raises(run.raised)
      ELSE CASE p.profiler = "absent" -> Raises("FileNotFoundError")
             [] p.profiler = "nonzero" -> Returns(None)
             [] p.profiler = "chip" -> Returns(p.chip_line)
             [] p.profiler = "nochip" -> Returns(None)

\* detect: the exception that leaves it (None: none) and the SystemInfo
\* returned.
Detect(p) ==
  LET total == GetTotalMemory(p)
      chip == GetChipName(p)
  IN  IF total.raised # None THEN [raised |-> total.raised, info |-> Null]
      ELSE IF chip.raised # None THEN [raised |-> chip.raised, info |-> Null]
      ELSE [raised |-> None,
            info |-> SystemInfo(total.value, GetAvailableMemory(p),
                                CheckMetal(p), chip.value)]

ProbeSet ==
  [sysctl : BOOLEAN, memsize : {"nonzero", "unparsable", "ok"},
   memsize_value : {80}, brand : {"nonzero", "ok"},
   brand_string : {"Apple M2"},
   profiler : {"absent", "nonzero", "chip", "nochip"},
   chip_line : {"Apple M1"},
   mlx : {"import_error", "raises", "true", "false"},
   psutil_total : {160}, psutil_available : {45, 160}]

(***************************************************************************)
(* TTSBroker._limit_length: tts/broker.py                                  *)
(*                                                                         *)
(* A text is a sequence of characters.                                     *)
(***************************************************************************)
MAX_SUMMARY_LENGTH == 200

\* " Check the screen for details."
TRUNCATION_SUFFIX ==
  <<" ", "C", "h", "e", "c", "k", " ", "t", "h", "e", " ", "s", "c",
    "r", "e", "e", "n", " ", "f", "o", "r", " ", "d", "e", "t", "a",
    "i", "l", "s", ".">>

\* A slice that is one character too long.
PrefixOneMore(text, n) == SubSeq(text, 1, Min(n + 1, Len(text)))

\* text[:n]
Prefix(text, n) == SubSeq(text, 1, Min(n, Len(text)))

\* text.rfind(ch): the highest index, counted from 0, or -1.
RFind(text, ch) ==
  LET found == {i \in 1..Len(text) : text[i] = ch}
  IN  IF found = {} THEN -1
      ELSE (CHOOSE i \in found : \A j \in found : j <= i) - 1

\* _limit_length
LimitLength(text) ==
  IF Len(text) <= MAX_SUMMARY_LENGTH THEN text
  ELSE LET truncated == Prefix(text, MAX_SUMMARY_LENGTH)
           last_space == RFind(truncated, " ")
       IN  (IF last_space > MAX_SUMMARY_LENGTH \div 2
              THEN Prefix(truncated, last_space)
              ELSE truncated) \o TRUNCATION_SUFFIX

\* The texts given: letters, with spaces at some of SpacePositions.
TextLengths == {0, 1, 100, 199, 200, 201, MaxTextLen}

SpacePositions == {1, 100, 101, 102, 150, 200, 201, 230}

TextWith(n, spaces) == [i \in 1..n |-> IF i \in spaces THEN " " ELSE "a"]

SummarySet == {TextWith(n, spaces) : n \in TextLengths, spaces \in SUBSET SpacePositions}

\* The fields of the triples whose keys are compared.
KeyFields == {"a", "b", "a|b", "b|a"}

TripleSet == [text : KeyFields, voice : KeyFields, model : KeyFields]

(***************************************************************************)
(* The volume of an AudioRenderer and AudioRendererPool: audio/renderer.py *)
(*                                                                         *)
(* Volumes are in tenths: 10 is the volume 1.0.                            *)
(***************************************************************************)
\* AudioRenderer.__init__: self.volume = max(0.0, min(1.0, volume))
AudioRendererInit(volume, cache) ==
  [volume |-> Max(0, Min(10, volume)), cache |-> cache]

\* AudioRendererPool.get_renderer on the pool's renderer (Null: none yet).
GetRenderer(renderer, volume, cache) ==
  IF renderer = Null THEN AudioRendererInit(volume, cache)
  ELSE [renderer EXCEPT !.volume = volume,
                        !.cache = IF cache # None THEN cache ELSE @]

\* _play_file: the value after "-v" in the afplay command.
AfplayVolume(renderer) == renderer.volume

VolumeSet == (0 - MaxVolume)..MaxVolume

\* The cache argument of get_renderer: None, or an AudioCache.
PoolCaches == {None, "cache"}

\* What the pool did last: the operation, the volume it was given and the
\* volume handed to the player.
PoolEvent(op, volume, passed) == [op |-> op, volume |-> volume, passed |-> passed]

(***************************************************************************)
(* cmd_notify: cli.py, with TTSBroker.get_text_for_event, tts/broker.py    *)
(*                                                                         *)
(* An event is [event_type, summary, payload_summary]: summary is          *)
(* event.summary and payload_summary what the source's extraction finds    *)
(* in the payload, both sequences of characters, <<>> when there is none.  *)
(* A configuration of the event is [enabled, mode, read_summary,           *)
(* template].                                                              *)
(***************************************************************************)
EventType == {"AGENT_YIELD", "DECISION_REQUIRED", "ERROR_RETRY"}

NotificationMode == {"tts", "earcon", "silent"}

\* The str of a sequence of characters.
RECURSIVE Join(_)
Join(chars) ==
  IF chars = <<>> THEN ""
  ELSE IF Len(chars) = 1 THEN chars[1]
  ELSE LET half == Len(chars) \div 2
       IN  Join(SubSeq(chars, 1, half))
             \o Join(SubSeq(chars, half + 1, Len(chars)))

\* Source, of events.py.
Source == {"CLAUDE", "CODEX", "OPENCODE"}

\* payload.get(key): <<>> when the key is not there (None).
PayloadGet(payload, key) ==
  IF key \in DOMAIN payload THEN payload[key] ELSE <<>>

\* _extract_claude_summary, _extract_codex_summary, _extract_opencode_summary
ExtractClaudeSummary(payload) == PayloadGet(payload, "reason")

ExtractCodexSummary(payload) == PayloadGet(payload, "last-assistant-message")

ExtractOpencodeSummary(payload) == PayloadGet(payload, "summary")

\* _extract_summary after the look at event.summary: nothing from no
\* payload or an empty one, else the extraction of the source.
PayloadSummary(source, payload) ==
  IF payload = EmptyDict THEN <<>>
  ELSE CASE source = "CLAUDE" -> ExtractClaudeSummary(payload)
         [] source = "CODEX" -> ExtractCodexSummary(payload)
         [] source = "OPENCODE" -> ExtractOpencodeSummary(payload)
         [] OTHER -> <<>>

\* An _extract_summary that looks at the payload first.
ExtractSummaryPayloadFirst(event) ==
  IF event.payload_summary # <<>> THEN event.payload_summary ELSE event.summary

\* _extract_summary: event.summary if it is truthy, else what the payload
\* gives.
ExtractSummary(event) ==
  IF event.summary # <<>> THEN event.summary ELSE event.payload_summary

\* _get_default_template
GetDefaultTemplate(event_type) ==
  CASE event_type = "AGENT_YIELD" -> "Ready."
    [] event_type = "DECISION_REQUIRED" -> "I need your input."
    [] event_type = "ERROR_RETRY" -> "I hit an error. Please review."
    [] OTHER -> "Notification."

\* get_text_for_event: the text to speak, or None.
GetTextForEvent(event_config, event) ==
  IF ~event_config.enabled THEN None
  ELSE IF event_config.mode = "silent" THEN None
  ELSE IF event_config.mode = "earcon" THEN None
  ELSE IF event_config.read_summary /\ ExtractSummary(event) # <<>>
    THEN Join(LimitLength(ExtractSummary(event)))
  ELSE IF event_config.template # "" THEN event_config.template
  ELSE GetDefaultTemplate(event.event_type)

\* A should_play_earcon that does not look at enabled.
ShouldPlayEarconIgnoresEnabled(event_config) == event_config.mode = "earcon"

\* should_play_earcon
ShouldPlayEarcon(event_config) ==
  event_config.enabled /\ event_config.mode = "earcon"

\* The outcome of a cmd_notify that has not reached _synthesize_and_play.
CmdOutcome(files_, source, text, status) ==
  [text |-> text, source |-> source, given |-> Null, calls |-> <<>>,
   stored |-> FALSE, files |-> files_, status |-> status, cache_model |-> "",
   hit |-> FALSE, trace |-> <<>>, rend |-> None, exc |-> None]

\* _play_earcon(event_type, config): 0 whether play_earcon returns True or
\* False; a PlaybackError of play_earcon leaves the function.
CmdPlayEarcon(files_) ==
  {[CmdOutcome(files_, "earcon_mode", None, IF e = "PlaybackError" THEN 1 ELSE 0)
      EXCEPT !.trace = <<"play_earcon">>, !.rend = e,
             !.exc = IF e = "PlaybackError" THEN e ELSE None] :
     e \in PlayEarconResults}

\* cmd_notify: the possible outcomes.  parsed is what the arguments and the
\* adapter give: "bad_source" (Source(args.source) raises ValueError),
\* "no_event" (the adapter returns no event) or "event".
CmdNotify(files_, atime, env, parsed, event_config, event, r, read_ok, write_ok) ==
  IF parsed = "bad_source" THEN {CmdOutcome(files_, "bad_source", None, 1)}
  ELSE IF parsed = "no_event" THEN {CmdOutcome(files_, "no_event", None, 0)}
  ELSE LET text == GetTextForEvent(event_config, event)
       IN  IF ShouldPlayEarcon(event_config) THEN CmdPlayEarcon(files_)
           ELSE IF text = None THEN {CmdOutcome(files_, "silent", None, 0)}
           ELSE SynthesizeAndPlay(files_, atime, env, text, r,
                                  read_ok, write_ok)

\* What cmd_notify is run on.
CmdEnvs ==
  [model_id : {None, MODELS["VOICE_DESIGN"].model_id}, voice : {None},
   installed : BOOLEAN,
   host : {[available_memory_gb |-> 25, metal_available |-> FALSE],
           [available_memory_gb |-> 160, metal_available |-> TRUE]},
   detect_ok : BOOLEAN]

EventConfigs ==
  [enabled : BOOLEAN, mode : NotificationMode, read_summary : BOOLEAN,
   template : {"", "Done."}]

\* A summary longer than MAX_SUMMARY_LENGTH, with one space.
LongSummary == TextWith(MaxTextLen, {150})

Events ==
  [event_type : {"AGENT_YIELD", "ERROR_RETRY"}, summary : {<<>>, LongSummary},
   payload_summary : {<<>>, <<"O", "k", ".">>}]

\* The requests: everything but the source is of no account when the
\* source is unknown, and so is the configuration when there is no event.
CmdRequests ==
  {q \in [env : CmdEnvs, parsed : {"bad_source", "no_event", "event"},
          event_config : EventConfigs, event : Events] :
     q.parsed # "event" =>
       /\ q.env.model_id = None /\ q.env.installed /\ q.env.detect_ok
       /\ q.env.host.metal_available
       /\ q.event_config = [enabled |-> TRUE, mode |-> "tts",
                            read_summary |-> FALSE, template |-> ""]
       /\ q.event = [event_type |-> "AGENT_YIELD", summary |-> <<>>,
                     payload_summary |-> <<>>]}

\* The cache directory a request finds: empty, or holding the file of the
\* key the request looks up, without bytes or with one.
CmdFiles(q) ==
  LET text == GetTextForEvent(q.event_config, q.event)
      model_for_cache == IF Truthy(q.env.model_id) THEN q.env.model_id
                         ELSE "auto"
      path == CachePath(CacheKey(text, "alba", model_for_cache))
  IN  {EmptyDict} \cup {DictSet(EmptyDict, path, b) : b \in {<<>>, <<1>>}}

\* What get_text_for_event is called on: every kind of event from every
\* source, with no summary, a short one or a long one, and a payload that
\* holds any of the three keys, each with an empty string or a text of its
\* own.
PayloadKeys == {"reason", "last-assistant-message", "summary"}

PayloadValue(key) ==
  CASE key = "reason" -> <<"r">>
    [] key = "last-assistant-message" -> <<"l">>
    [] key = "summary" -> <<"s">>

Payloads ==
  UNION {{p \in [keys -> {<<>>, <<"r">>, <<"l">>, <<"s">>}] :
            \A k \in keys : p[k] \in {<<>>, PayloadValue(k)}} :
           keys \in SUBSET PayloadKeys}

BrokerCalls ==
  [event_config : EventConfigs, event_type : EventType, source : Source,
   summary : {<<>>, <<"H", "i">>, LongSummary}, payload : Payloads]

(***************************************************************************)
(* State.                                                                  *)
(***************************************************************************)
VARIABLES
  \* ModelSelector.select
  user_preference,   \* select()'s user_preference argument
  mode,              \* select()'s mode argument
  host_a,            \* what detect() returns on host A
  host_b,            \* what detect() returns on host B
  selection_a,       \* the SelectionResult on host A, Null before the call
  selection_b,       \* the SelectionResult on host B, Null before the call
  \* AudioCache
  max_entries,       \* self.max_entries
  max_size_bytes,    \* self.max_size_bytes
  index,             \* self._index
  files,             \* the *.wav files of self.cache_dir
  now,               \* the latest value time.time() returned
  hung,              \* a put is inside a loop that never ends
  cache_last,        \* the latest call (or outside event), with its result
  \* TTSProvider
  prov_model_id,     \* self.model_id
  prov_voice,        \* self.voice
  model_spec,        \* self._model_spec, as a tier
  mlx_installed,     \* mlx_audio can be imported
  synth_calls,       \* synthesize() calls so far
  select_calls,      \* select() calls so far
  synth_last,        \* the latest synthesize() call, with its result
  \* notify
  notify_env,        \* the configuration and the host of the requests
  notify_files,      \* the files of the cache directory
  notify_stored,     \* text -> the audio an earlier request stored for it
  notify_count,      \* requests so far
  notify_last,       \* the latest request, with its outcome
  \* AudioRenderer
  lock,              \* self._lock: "free", or the thread that holds it
  current_process,   \* self._current_process (NoProcess: None)
  temp_file,         \* self._temp_file (Null: None)
  procs,             \* the player processes started so far
  fs,                \* the files: path -> content
  next_pid,          \* player processes started so far
  next_path,         \* scratch names made so far
  th,                \* where each thread is in its call
  rend_last,         \* the latest step, with its result
  \* SystemDetector.detect
  probes,            \* what the probes of the host do
  detected,          \* the latest detect() call, with its result
  \* TTSBroker._limit_length
  summary,           \* the text given
  limited,           \* the text returned
  \* AudioCache._cache_key
  triple_a,          \* one (text, voice, model)
  triple_b,          \* another
  keyed,             \* the key strings and the keys of the two
  \* AudioRendererPool
  pool_renderer,     \* AudioRendererPool._renderer
  pool_last,         \* the latest call on the pool or its renderer
  \* TTSBroker.get_text_for_event
  broker_call,       \* the configuration, the event and the payload given
  broker_text        \* the text returned

selVars ==
  <<user_preference, mode, host_a, host_b, selection_a, selection_b>>

cacheVars ==
  <<max_entries, max_size_bytes, index, files, now, hung, cache_last>>

provVars ==
  <<prov_model_id, prov_voice, model_spec, mlx_installed, synth_calls,
    select_calls, synth_last>>

notifyVars ==
  <<notify_env, notify_files, notify_stored, notify_count, notify_last>>

rendVars ==
  <<lock, current_process, temp_file, procs, fs, next_pid, next_path, th,
    rend_last>>

detVars == <<probes, detected>>

limitVars == <<summary, limited>>

keyVars == <<triple_a, triple_b, keyed>>

poolVars == <<pool_renderer, pool_last>>

brokerVars == <<broker_call, broker_text>>

funVars == <<detVars, limitVars, keyVars, poolVars, brokerVars>>

vars == <<selVars, cacheVars, provVars, notifyVars, rendVars, funVars>>

DetIdle == probes = Null /\ detected = Null

LimitIdle == summary = <<>> /\ limited = Null

KeyIdle == triple_a = Null /\ triple_b = Null /\ keyed = Null

PoolIdle == pool_renderer = Null /\ pool_last = Null

BrokerIdle == broker_call = Null /\ broker_text = Null

FunIdle == DetIdle /\ LimitIdle /\ KeyIdle /\ PoolIdle /\ BrokerIdle

SelIdle ==
  /\ user_preference = None
  /\ mode = "AUTO"
  /\ host_a = Null
  /\ host_b = Null
  /\ selection_a = Null
  /\ selection_b = Null

\* A record of cache_last; prior is the key's entry when the call began
\* (Null: none), log the evictions of a put.
CacheCall(op, text, voice, model, audio, ret, prior, log, write_ok) ==
  [op |-> op, text |-> text, voice |-> voice, model |-> model,
   audio |-> audio, ret |-> ret, prior |-> prior, log |-> log,
   write_ok |-> write_ok]

CacheEvent(op) == CacheCall(op, "", "", "", <<>>, Null, Null, <<>>, TRUE)

EntryOf(index_, key) == IF key \in DOMAIN index_ THEN index_[key] ELSE Null

CacheIdle ==
  /\ max_entries = 0
  /\ max_size_bytes = 0
  /\ index = EmptyDict
  /\ files = EmptyDict
  /\ now = 0
  /\ hung = FALSE
  /\ cache_last = CacheEvent("idle")

NoSynth ==
  [text |-> "", result |-> "none", audio |-> <<>>, model_spec |-> None,
   selected |-> FALSE, mode |-> None, calls |-> <<>>, before |-> None,
   selected_result |-> None]

ProvIdle ==
  /\ prov_model_id = None
  /\ prov_voice = None
  /\ model_spec = None
  /\ mlx_installed = FALSE
  /\ synth_calls = 0
  /\ select_calls = 0
  /\ synth_last = NoSynth

NoNotify ==
  [text |-> "", source |-> "none", given |-> Null, calls |-> <<>>,
   stored |-> FALSE, status |-> 0, cache_model |-> "",
   stored_before |-> Null]

NotifyIdle ==
  /\ notify_env = Null
  /\ notify_files = EmptyDict
  /\ notify_stored = EmptyDict
  /\ notify_count = 0
  /\ notify_last = NoNotify

ThIdle ==
  [pc |-> "idle", op |-> "", blocking |-> FALSE, audio |-> <<>>,
   child |-> NoProcess, prev_proc |-> NoProcess, prev_file |-> Null,
   prev_active |-> FALSE]

\* A step of the renderer: the operation, its thread, its result and what
\* the thread remembers of the call.
RendEvent(op, thread, result, call) ==
  [op |-> op, thread |-> thread, result |-> result, call |-> call]

RendIdle ==
  /\ lock = "free"
  /\ current_process = NoProcess
  /\ temp_file = Null
  /\ procs = EmptyDict
  /\ fs = EmptyDict
  /\ next_pid = 0
  /\ next_path = 0
  /\ th = [t \in Threads |-> ThIdle]
  /\ rend_last = RendEvent("idle", "", "", ThIdle)

(***************************************************************************)
(* SpecSelect: select() with the same arguments on two hosts.              *)
(***************************************************************************)
InitSelect ==
  /\ FunIdle
  /\ user_preference \in PreferenceSet
  /\ mode \in SelectionMode
  /\ host_a \in SystemInfoSet
  /\ host_b \in SystemInfoSet
  /\ selection_a = Null
  /\ selection_b = Null
  /\ CacheIdle
  /\ ProvIdle
  /\ NotifyIdle
  /\ RendIdle

SelectOnA ==
  /\ selection_a = Null
  /\ selection_a' = Select(user_preference, mode, host_a)
  /\ UNCHANGED <<user_preference, mode, host_a, host_b, selection_b>>
  /\ UNCHANGED <<cacheVars, provVars, notifyVars, rendVars, funVars>>

SelectOnB ==
  /\ selection_b = Null
  /\ selection_b' = Select(user_preference, mode, host_b)
  /\ UNCHANGED <<user_preference, mode, host_a, host_b, selection_a>>
  /\ UNCHANGED <<cacheVars, provVars, notifyVars, rendVars, funVars>>

NextSelect == SelectOnA \/ SelectOnB

SpecSelect == InitSelect /\ [][NextSelect]_vars

(***************************************************************************)
(* SpecCache: one AudioCache, constructed on a directory that may hold     *)
(* files, then put, get and clear in any order; files may be deleted from  *)
(* outside.  time.time() is taken to return a larger value at every call.  *)
(***************************************************************************)
InitCache ==
  /\ FunIdle
  /\ SelIdle
  /\ ProvIdle
  /\ NotifyIdle
  /\ RendIdle
  /\ max_entries \in 0..MaxEntriesCap
  /\ max_size_bytes \in 0..MaxSizeCap
  /\ now = 1
  /\ hung = FALSE
  /\ cache_last = CacheEvent("init")
  /\ \E paths \in SUBSET PrePaths :
       \E data \in [paths -> PreAudio], atime \in [paths -> PreTimes] :
         /\ files = data
         /\ index = LoadIndex(data, atime)

CachePut(text, voice, model, audio, write_ok) ==
  /\ ~hung
  /\ now < MaxTime
  /\ \E s \in Put([index |-> index, files |-> files, log |-> <<>>, hung |-> FALSE],
                   now + 1, text, voice, model, audio, write_ok,
                   max_entries, max_size_bytes) :
       /\ index' = s.index
       /\ files' = s.files
       /\ hung' = s.hung
       /\ now' = IF s.hung \/ ~write_ok THEN now ELSE now + 1
       /\ cache_last' = CacheCall(IF s.hung THEN "put_hung" ELSE "put",
                                  text, voice, model, audio, Null,
                                  EntryOf(index, CacheKey(text, voice, model)),
                                  s.log, write_ok)
  /\ UNCHANGED <<max_entries, max_size_bytes>>
  /\ UNCHANGED <<selVars, provVars, notifyVars, rendVars, funVars>>

CacheGet(text, voice, model, read_ok) ==
  /\ ~hung
  /\ now < MaxTime
  /\ LET r == Get(index, files, now + 1, text, voice, model, read_ok)
     IN  /\ index' = r.index
         /\ now' = IF r.ticked THEN now + 1 ELSE now
         /\ cache_last' = CacheCall("get", text, voice, model, <<>>, r.ret,
                                    EntryOf(index, CacheKey(text, voice, model)),
                                    <<>>, TRUE)
  /\ UNCHANGED <<max_entries, max_size_bytes, files, hung>>
  /\ UNCHANGED <<selVars, provVars, notifyVars, rendVars, funVars>>

\* clear: every entry's file is unlinked (failed: the unlinks that raise
\* OSError, passed over), then the index is emptied.
CacheClear(failed) ==
  /\ ~hung
  /\ LET tracked == {index[k].path : k \in DOMAIN index}
     IN  /\ failed \subseteq tracked \cap DOMAIN files
         /\ files' = [p \in (DOMAIN files) \ (tracked \ failed) |-> files[p]]
  /\ index' = EmptyDict
  /\ cache_last' = CacheEvent("clear")
  /\ UNCHANGED <<max_entries, max_size_bytes, now, hung>>
  /\ UNCHANGED <<selVars, provVars, notifyVars, rendVars, funVars>>

\* Something other than the cache deletes one of its files.
ExternalDelete(path) ==
  /\ ~hung
  /\ path \in DOMAIN files
  /\ files' = DictDel(files, path)
  /\ cache_last' = CacheEvent("external_delete")
  /\ UNCHANGED <<max_entries, max_size_bytes, index, now, hung>>
  /\ UNCHANGED <<selVars, provVars, notifyVars, rendVars, funVars>>

NextCache ==
  \/ \E text \in CacheTexts, voice \in CacheVoices, model \in CacheModels,
        audio \in AudioSet, write_ok \in BOOLEAN :
          CachePut(text, voice, model, audio, write_ok)
  \/ \E text \in CacheTexts, voice \in CacheVoices, model \in CacheModels,
        read_ok \in BOOLEAN :
          CacheGet(text, voice, model, read_ok)
  \/ \E failed \in SUBSET DOMAIN files : CacheClear(failed)
  \/ \E path \in DOMAIN files : ExternalDelete(path)

SpecCache == InitCache /\ [][NextCache]_vars

(***************************************************************************)
(* SpecRestart: an AudioCache constructed on an empty directory, used as   *)
(* in SpecCache, and constructed anew on the same directory at any time.   *)
(***************************************************************************)
InitRestart ==
  /\ FunIdle
  /\ SelIdle
  /\ ProvIdle
  /\ NotifyIdle
  /\ RendIdle
  /\ max_entries \in 0..MaxEntriesCap
  /\ max_size_bytes \in 0..MaxSizeCap
  /\ now = 1
  /\ hung = FALSE
  /\ cache_last = CacheEvent("init")
  /\ files = EmptyDict
  /\ index = LoadIndex(files, EmptyDict)

\* The process ends and a new AudioCache is constructed on the directory,
\* with the same limits: _load_index.  atime is the st_atime of the files.
CacheRestart(atime) ==
  /\ ~hung
  /\ index' = LoadIndex(files, atime)
  /\ cache_last' = CacheEvent("restart")
  /\ UNCHANGED <<max_entries, max_size_bytes, files, now, hung>>
  /\ UNCHANGED <<selVars, provVars, notifyVars, rendVars, funVars>>

NextRestart ==
  \/ NextCache
  \/ \E atime \in [DOMAIN files -> PreTimes] : CacheRestart(atime)

SpecRestart == InitRestart /\ [][NextRestart]_vars

(***************************************************************************)
(* SpecProvider: one TTSProvider, synthesize() called again and again.     *)
(***************************************************************************)
InitProvider ==
  /\ FunIdle
  /\ SelIdle
  /\ CacheIdle
  /\ NotifyIdle
  /\ RendIdle
  /\ prov_model_id \in PreferenceSet
  /\ prov_voice \in ProviderVoices
  /\ model_spec = None
  /\ mlx_installed \in BOOLEAN
  /\ synth_calls = 0
  /\ select_calls = 0
  /\ synth_last = NoSynth

ProviderSynthesize(text, host, detect_ok, outcome1, audio1, outcome2, audio2) ==
  /\ synth_calls < MaxSynthCalls
  /\ LET r == Synthesize(model_spec, prov_model_id, prov_voice, mlx_installed,
                         host, detect_ok, outcome1, audio1, outcome2, audio2)
     IN  /\ model_spec' = r.model_spec
         /\ select_calls' = IF r.selected THEN select_calls + 1 ELSE select_calls
         /\ synth_last' = [text |-> text, result |-> r.result, audio |-> r.audio,
                           model_spec |-> r.model_spec, selected |-> r.selected,
                           mode |-> r.mode,
                           calls |-> r.calls, before |-> model_spec,
                           selected_result |->
                             IF r.selected /\ r.result # "FileNotFoundError"
                               THEN r.calls[1].model
                               ELSE synth_last.selected_result]
  /\ synth_calls' = synth_calls + 1
  /\ UNCHANGED <<prov_model_id, prov_voice, mlx_installed>>
  /\ UNCHANGED <<selVars, cacheVars, notifyVars, rendVars, funVars>>

NextProvider ==
  \E text \in SynthTexts, host \in ProviderHosts, detect_ok \in BOOLEAN,
     outcome1 \in EngineOutcomes, audio1 \in EngineAudio,
     outcome2 \in EngineOutcomes, audio2 \in EngineAudio :
       ProviderSynthesize(text, host, detect_ok, outcome1, audio1,
                          outcome2, audio2)

SpecProvider == InitProvider /\ [][NextProvider]_vars

(***************************************************************************)
(* SpecNotify: notify requests, each a process of its own, with one        *)
(* configuration on one host and one cache directory, empty at first.      *)
(***************************************************************************)
InitNotify ==
  /\ FunIdle
  /\ SelIdle
  /\ CacheIdle
  /\ ProvIdle
  /\ RendIdle
  /\ notify_env \in NotifyEnvs
  /\ notify_files = EmptyDict
  /\ notify_stored = EmptyDict
  /\ notify_count = 0
  /\ notify_last = NoNotify

Notify(text, r, read_ok, write_ok) ==
  /\ notify_count < MaxNotify
  /\ \E atime \in [DOMAIN notify_files -> {0}] :
       \E o \in SynthesizeAndPlay(notify_files, atime, notify_env, text, r,
                                  read_ok, write_ok) :
         /\ notify_files' = o.files
         /\ notify_stored' = IF o.stored
                                THEN DictSet(notify_stored, text, o.given.bytes)
                                ELSE notify_stored
         /\ notify_last' =
              [text |-> text, source |-> o.source, given |-> o.given,
               calls |-> o.calls, stored |-> o.stored, status |-> o.status,
               cache_model |-> o.cache_model,
               stored_before |-> IF text \in DOMAIN notify_stored
                                   THEN [bytes |-> notify_stored[text]]
                                   ELSE Null]
  /\ notify_count' = notify_count + 1
  /\ UNCHANGED notify_env
  /\ UNCHANGED <<selVars, cacheVars, provVars, rendVars, funVars>>

NextNotify ==
  \E r \in SynthResults(notify_env), text \in NotifyTexts,
     read_ok \in BOOLEAN, write_ok \in BOOLEAN :
       Notify(text, r, read_ok, write_ok)

SpecNotify == InitNotify /\ [][NextNotify]_vars

(***************************************************************************)
(* SpecRenderer: one AudioRenderer used by two threads.  An operation is   *)
(* one step from taking the lock to releasing it, except where it waits    *)
(* for a player (subprocess.run, wait) or works outside the lock           *)
(* (play_earcon's exists(), wait); a thread waiting for the lock is a      *)
(* thread whose step is not enabled.                                       *)
(***************************************************************************)
Rend ==
  [current_process |-> current_process, temp_file |-> temp_file,
   procs |-> procs, fs |-> fs, next_pid |-> next_pid, next_path |-> next_path]

SetRend(r) ==
  /\ current_process' = r.current_process
  /\ temp_file' = r.temp_file
  /\ procs' = r.procs
  /\ fs' = r.fs
  /\ next_pid' = r.next_pid
  /\ next_path' = r.next_path

\* The player the handle holds is running.
Playing == current_process # NoProcess /\ procs[current_process] = "running"

InitRenderer ==
  /\ FunIdle
  /\ SelIdle
  /\ CacheIdle
  /\ ProvIdle
  /\ NotifyIdle
  /\ lock = "free"
  /\ current_process = NoProcess
  /\ temp_file = Null
  /\ procs = EmptyDict
  /\ fs \in {EmptyDict, DictSet(EmptyDict, EarconPath, EarconBytes)}
  /\ next_pid = 0
  /\ next_path = 0
  /\ th = [t \in Threads |-> ThIdle]
  /\ rend_last = RendEvent("init", "", "", ThIdle)

\* What a thread remembers of the call it is in.
Call(op, blocking, audio, child) ==
  [pc |-> "run", op |-> op, blocking |-> blocking, audio |-> audio,
   child |-> child, prev_proc |-> current_process, prev_file |-> temp_file,
   prev_active |-> Playing]

\* The operation of thread t has got to outcome o: it waits in
\* subprocess.run with the lock held, or it is over.
Outcome(t, op, blocking, audio, o) ==
  /\ SetRend(o.st)
  /\ IF o.result = "run"
       THEN /\ lock' = t
            /\ th' = [th EXCEPT ![t] = Call(op, blocking, audio, o.child)]
            /\ rend_last' = RendEvent(op \o "_begin", t, "run", th'[t])
       ELSE /\ lock' = "free"
            /\ th' = [th EXCEPT ![t] = ThIdle]
            /\ rend_last' = RendEvent(op, t, o.result,
                                      Call(op, blocking, audio, o.child))

RendPlay(t, audio, blocking, gone, unlink_ok, write_ok, spawn_ok) ==
  /\ th[t].pc = "idle" /\ lock = "free"
  /\ next_pid < MaxProcs /\ next_path < MaxScratch
  /\ Outcome(t, "play", blocking, audio,
             Play(Rend, audio, blocking, gone, unlink_ok,
                  write_ok, spawn_ok))
  /\ UNCHANGED <<selVars, cacheVars, provVars, notifyVars, funVars>>

\* subprocess.run returns: the child has exited, with status 0 or not
\* (CalledProcessError, raised as PlaybackError).
RunReturn(t, status_ok) ==
  /\ th[t].pc = "run"
  /\ procs[th[t].child] = "exited"
  /\ lock' = "free"
  /\ th' = [th EXCEPT ![t] = ThIdle]
  /\ rend_last' = RendEvent(th[t].op, t,
                            IF status_ok THEN "ok" ELSE "PlaybackError", th[t])
  /\ UNCHANGED <<current_process, temp_file, procs, fs, next_pid, next_path>>
  /\ UNCHANGED <<selVars, cacheVars, provVars, notifyVars, funVars>>

RendPlayStreaming(t, audio, write_ok, spawn_ok) ==
  /\ th[t].pc = "idle" /\ lock = "free"
  /\ next_pid < MaxProcs /\ next_path < MaxScratch
  /\ Outcome(t, "play_streaming", FALSE, audio,
             PlayStreaming(Rend, audio, write_ok, spawn_ok))
  /\ UNCHANGED <<selVars, cacheVars, provVars, notifyVars, funVars>>

\* play_earcon up to the lock: earcon_path.exists()
EarconCheck(t, blocking) ==
  /\ th[t].pc = "idle"
  /\ IF EarconExists(fs)
       THEN /\ th' = [th EXCEPT ![t] =
                        [ThIdle EXCEPT !.pc = "earcon_checked",
                                       !.op = "play_earcon",
                                       !.blocking = blocking]]
            /\ rend_last' = RendEvent("earcon_check", t, "found", th'[t])
       ELSE /\ th' = th
            /\ rend_last' = RendEvent("play_earcon", t, "False",
                              Call("play_earcon", blocking, <<>>, NoProcess))
  /\ UNCHANGED <<lock, current_process, temp_file, procs, fs, next_pid,
                 next_path>>
  /\ UNCHANGED <<selVars, cacheVars, provVars, notifyVars, funVars>>

\* play_earcon from the lock on.
RendPlayEarcon(t, gone, unlink_ok, spawn_ok) ==
  /\ th[t].pc = "earcon_checked" /\ lock = "free"
  /\ next_pid < MaxProcs
  /\ Outcome(t, "play_earcon", th[t].blocking, <<>>,
             PlayEarcon(Rend, th[t].blocking, gone,
                        unlink_ok, spawn_ok))
  /\ UNCHANGED <<selVars, cacheVars, provVars, notifyVars, funVars>>

RendStop(t, gone, unlink_ok) ==
  /\ th[t].pc = "idle" /\ lock = "free"
  /\ Outcome(t, "stop", FALSE, <<>>,
             [st |-> StopCurrent(Rend, gone, unlink_ok),
              result |-> "ok", child |-> NoProcess])
  /\ UNCHANGED <<selVars, cacheVars, provVars, notifyVars, funVars>>

\* wait: if self._current_process is None: return True
WaitCheck(t) ==
  /\ th[t].pc = "idle"
  /\ IF current_process = NoProcess
       THEN /\ th' = th
            /\ rend_last' = RendEvent("wait", t, "True",
                                      Call("wait", TRUE, <<>>, NoProcess))
       ELSE /\ th' = [th EXCEPT ![t] =
                        [ThIdle EXCEPT !.pc = "wait_checked", !.op = "wait"]]
            /\ rend_last' = RendEvent("wait_check", t, "found", th'[t])
  /\ UNCHANGED <<lock, current_process, temp_file, procs, fs, next_pid,
                 next_path>>
  /\ UNCHANGED <<selVars, cacheVars, provVars, notifyVars, funVars>>

\* wait: self._current_process.wait(timeout=timeout), the attribute read
\* again: None has no wait (AttributeError); else True when the player has
\* exited, False when the timeout has passed.
WaitJoin(t, timed_out) ==
  /\ th[t].pc = "wait_checked"
  /\ \/ current_process = NoProcess
     \/ current_process # NoProcess /\ procs[current_process] = "exited"
     \/ timed_out
  /\ th' = [th EXCEPT ![t] = ThIdle]
  /\ rend_last' = RendEvent("wait", t,
                            IF current_process = NoProcess THEN "AttributeError"
                            ELSE IF procs[current_process] = "exited" THEN "True"
                            ELSE "False", th[t])
  /\ UNCHANGED <<lock, current_process, temp_file, procs, fs, next_pid,
                 next_path>>
  /\ UNCHANGED <<selVars, cacheVars, provVars, notifyVars, funVars>>

\* A player comes to its end, by itself or by a signal sent before.
ProcExit(p) ==
  /\ p \in Alive(procs)
  /\ procs' = [procs EXCEPT ![p] = "exited"]
  /\ rend_last' = RendEvent("proc_exit", "", "", ThIdle)
  /\ UNCHANGED <<lock, current_process, temp_file, fs, next_pid, next_path, th>>
  /\ UNCHANGED <<selVars, cacheVars, provVars, notifyVars, funVars>>

\* The earcon file is removed by somebody else.
EarconRemoved ==
  /\ EarconPath \in DOMAIN fs
  /\ fs' = DictDel(fs, EarconPath)
  /\ rend_last' = RendEvent("earcon_removed", "", "", ThIdle)
  /\ UNCHANGED <<lock, current_process, temp_file, procs, next_pid, next_path,
                 th>>
  /\ UNCHANGED <<selVars, cacheVars, provVars, notifyVars, funVars>>

\* What _stop_current can meet: the outcome of terminate and kill counts
\* only when a player is running, the outcome of unlink only when the
\* scratch file is there.
GoneSet == IF Playing THEN BOOLEAN ELSE {TRUE}

UnlinkSet ==
  IF temp_file # Null /\ temp_file \in DOMAIN fs THEN BOOLEAN ELSE {TRUE}

\* The player is started only after the scratch file has been written.
SpawnSet(write_ok) == IF write_ok THEN BOOLEAN ELSE {TRUE}

NextRenderer ==
  \/ \E t \in Threads, audio \in RendAudio, blocking \in BOOLEAN,
        gone \in GoneSet, unlink_ok \in UnlinkSet, write_ok \in BOOLEAN :
          \E spawn_ok \in SpawnSet(write_ok) :
            RendPlay(t, audio, blocking, gone, unlink_ok,
                     write_ok, spawn_ok)
  \/ \E t \in Threads, status_ok \in BOOLEAN : RunReturn(t, status_ok)
  \/ \E t \in Threads, audio \in RendAudio, write_ok \in BOOLEAN :
        \E spawn_ok \in SpawnSet(write_ok) :
          RendPlayStreaming(t, audio, write_ok, spawn_ok)
  \/ \E t \in Threads, blocking \in BOOLEAN : EarconCheck(t, blocking)
  \/ \E t \in Threads, gone \in GoneSet,
        unlink_ok \in UnlinkSet, spawn_ok \in BOOLEAN :
          RendPlayEarcon(t, gone, unlink_ok, spawn_ok)
  \/ \E t \in Threads, gone \in GoneSet,
        unlink_ok \in UnlinkSet : RendStop(t, gone, unlink_ok)
  \/ \E t \in Threads : WaitCheck(t)
  \/ \E t \in Threads, timed_out \in BOOLEAN : WaitJoin(t, timed_out)
  \/ \E p \in DOMAIN procs : ProcExit(p)
  \/ EarconRemoved

SpecRenderer == InitRenderer /\ [][NextRenderer]_vars

(***************************************************************************)
(* SpecScratch: one AudioRenderer used by one thread, with other processes *)
(* that write files into the directory of tempfile.mktemp.  mktemp only    *)
(* returns a name no file has at that moment; the file is made later, by   *)
(* write_bytes, so play is two steps here, with the name in between.       *)
(***************************************************************************)
\* What a file of another process holds.
ForeignBytes == <<2>>

\* play up to tempfile.mktemp: the lock, _stop_current, the new name.
ScratchPlayName(t, audio, blocking, gone, unlink_ok) ==
  /\ th[t].pc = "idle" /\ lock = "free"
  /\ next_pid < MaxProcs /\ next_path < MaxScratch
  /\ SetRend(Mktemp(StopCurrent(Rend, gone, unlink_ok)))
  /\ lock' = t
  /\ th' = [th EXCEPT ![t] = [Call("play", blocking, audio, NoProcess)
                                 EXCEPT !.pc = "named"]]
  /\ rend_last' = RendEvent("play_named", t, "", th'[t])
  /\ UNCHANGED <<selVars, cacheVars, provVars, notifyVars, funVars>>

\* play from write_bytes on: the file of that name is made, or written
\* over, and the player started.
ScratchPlayWrite(t, write_ok, spawn_ok) ==
  /\ th[t].pc = "named"
  /\ Outcome(t, "play", th[t].blocking, th[t].audio,
             IF ~write_ok
               THEN [st |-> Rend, result |-> "OSError", child |-> NoProcess]
               ELSE PlayFile([Rend EXCEPT !.fs = DictSet(fs, temp_file, th[t].audio)],
                             temp_file, th[t].blocking, spawn_ok))
  /\ UNCHANGED <<selVars, cacheVars, provVars, notifyVars, funVars>>

\* Another process makes a file under a name mktemp has returned and no
\* file has.
ForeignCreate(path) ==
  /\ path \notin DOMAIN fs
  /\ fs' = DictSet(fs, path, ForeignBytes)
  /\ rend_last' = RendEvent("foreign_create", "", "", ThIdle)
  /\ UNCHANGED <<lock, current_process, temp_file, procs, next_pid, next_path,
                 th>>
  /\ UNCHANGED <<selVars, cacheVars, provVars, notifyVars, funVars>>

NextScratch ==
  \/ \E audio \in RendAudio, blocking \in BOOLEAN,
        gone \in GoneSet, unlink_ok \in UnlinkSet :
          ScratchPlayName("t1", audio, blocking, gone, unlink_ok)
  \/ \E write_ok \in BOOLEAN : \E spawn_ok \in SpawnSet(write_ok) :
        ScratchPlayWrite("t1", write_ok, spawn_ok)
  \/ \E n \in 1..next_path : ForeignCreate(ScratchPath(n))
  \/ \E status_ok \in BOOLEAN : RunReturn("t1", status_ok)
  \/ \E audio \in RendAudio, write_ok \in BOOLEAN :
        \E spawn_ok \in SpawnSet(write_ok) :
          RendPlayStreaming("t1", audio, write_ok, spawn_ok)
  \/ \E blocking \in BOOLEAN : EarconCheck("t1", blocking)
  \/ \E gone \in GoneSet, unlink_ok \in UnlinkSet, spawn_ok \in BOOLEAN :
        RendPlayEarcon("t1", gone, unlink_ok, spawn_ok)
  \/ \E gone \in GoneSet, unlink_ok \in UnlinkSet :
        RendStop("t1", gone, unlink_ok)
  \/ \E p \in DOMAIN procs : ProcExit(p)

SpecScratch == InitRenderer /\ [][NextScratch]_vars

(***************************************************************************)
(* SpecDetect: detect() on a host.                                         *)
(***************************************************************************)
InitDetect ==
  /\ SelIdle /\ CacheIdle /\ ProvIdle /\ NotifyIdle /\ RendIdle
  /\ LimitIdle /\ KeyIdle /\ PoolIdle /\ BrokerIdle
  /\ probes \in ProbeSet
  /\ detected = Null

DetectCall ==
  /\ detected = Null
  /\ detected' = Detect(probes)
  /\ UNCHANGED probes
  /\ UNCHANGED <<selVars, cacheVars, provVars, notifyVars, rendVars>>
  /\ UNCHANGED <<limitVars, keyVars, poolVars, brokerVars>>

NextDetect == DetectCall

SpecDetect == InitDetect /\ [][NextDetect]_vars

(***************************************************************************)
(* SpecLimit: _limit_length on a text.                                     *)
(***************************************************************************)
InitLimit ==
  /\ SelIdle /\ CacheIdle /\ ProvIdle /\ NotifyIdle /\ RendIdle
  /\ DetIdle /\ KeyIdle /\ PoolIdle /\ BrokerIdle
  /\ summary \in SummarySet
  /\ limited = Null

LimitCall ==
  /\ limited = Null
  /\ limited' = [text |-> LimitLength(summary)]
  /\ UNCHANGED summary
  /\ UNCHANGED <<selVars, cacheVars, provVars, notifyVars, rendVars>>
  /\ UNCHANGED <<detVars, keyVars, poolVars, brokerVars>>

NextLimit == LimitCall

SpecLimit == InitLimit /\ [][NextLimit]_vars

(***************************************************************************)
(* SpecBroker: get_text_for_event on an event and its payload.             *)
(***************************************************************************)
InitBroker ==
  /\ SelIdle /\ CacheIdle /\ ProvIdle /\ NotifyIdle /\ RendIdle
  /\ DetIdle /\ LimitIdle /\ KeyIdle /\ PoolIdle
  /\ broker_call \in BrokerCalls
  /\ broker_text = Null

BrokerCall ==
  /\ broker_text = Null
  /\ broker_text' =
       [text |-> GetTextForEvent(broker_call.event_config,
                   [event_type |-> broker_call.event_type,
                    summary |-> broker_call.summary,
                    payload_summary |-> PayloadSummary(broker_call.source,
                                                       broker_call.payload)])]
  /\ UNCHANGED broker_call
  /\ UNCHANGED <<selVars, cacheVars, provVars, notifyVars, rendVars>>
  /\ UNCHANGED <<detVars, limitVars, keyVars, poolVars>>

NextBroker == BrokerCall

SpecBroker == InitBroker /\ [][NextBroker]_vars

(***************************************************************************)
(* SpecKey: _cache_key and _cache_path on two triples.                     *)
(***************************************************************************)
InitKey ==
  /\ SelIdle /\ CacheIdle /\ ProvIdle /\ NotifyIdle /\ RendIdle
  /\ DetIdle /\ LimitIdle /\ PoolIdle /\ BrokerIdle
  /\ triple_a \in TripleSet
  /\ triple_b \in TripleSet
  /\ keyed = Null

KeyCall ==
  /\ keyed = Null
  /\ keyed' =
       [content_a |-> KeyContent(triple_a.text, triple_a.voice, triple_a.model),
        content_b |-> KeyContent(triple_b.text, triple_b.voice, triple_b.model),
        path_a |-> CachePath(CacheKey(triple_a.text, triple_a.voice,
                                      triple_a.model)),
        path_b |-> CachePath(CacheKey(triple_b.text, triple_b.voice,
                                      triple_b.model))]
  /\ UNCHANGED <<triple_a, triple_b>>
  /\ UNCHANGED <<selVars, cacheVars, provVars, notifyVars, rendVars>>
  /\ UNCHANGED <<detVars, limitVars, poolVars, brokerVars>>

NextKey == KeyCall

SpecKey == InitKey /\ [][NextKey]_vars

(***************************************************************************)
(* SpecPool: the renderer of an AudioRendererPool, its volume set by       *)
(* get_renderer and read by _play_file.                                    *)
(***************************************************************************)
InitPool ==
  /\ SelIdle /\ CacheIdle /\ ProvIdle /\ NotifyIdle /\ RendIdle
  /\ DetIdle /\ LimitIdle /\ KeyIdle /\ BrokerIdle
  /\ pool_renderer = Null
  /\ pool_last = PoolEvent("init", 0, 0)

PoolGetRenderer(volume, cache) ==
  /\ pool_renderer' = GetRenderer(pool_renderer, volume, cache)
  /\ pool_last' = PoolEvent(IF pool_renderer = Null THEN "create" ELSE "update",
                            volume, 0)
  /\ UNCHANGED <<selVars, cacheVars, provVars, notifyVars, rendVars>>
  /\ UNCHANGED <<detVars, limitVars, keyVars, brokerVars>>

\* play / play_earcon on the pool's renderer, as far as the command line.
PoolPlay ==
  /\ pool_renderer # Null
  /\ pool_last' = PoolEvent("play", pool_renderer.volume,
                            AfplayVolume(pool_renderer))
  /\ UNCHANGED pool_renderer
  /\ UNCHANGED <<selVars, cacheVars, provVars, notifyVars, rendVars>>
  /\ UNCHANGED <<detVars, limitVars, keyVars, brokerVars>>

\* AudioRendererPool.clear: the renderer is stopped, which leaves its volume
\* as it is, and dropped.
PoolClear ==
  /\ pool_renderer # Null
  /\ pool_renderer' = Null
  /\ pool_last' = PoolEvent("clear", 0, 0)
  /\ UNCHANGED <<selVars, cacheVars, provVars, notifyVars, rendVars>>
  /\ UNCHANGED <<detVars, limitVars, keyVars, brokerVars>>

NextPool ==
  \/ \E volume \in VolumeSet, cache \in PoolCaches :
        PoolGetRenderer(volume, cache)
  \/ PoolPlay
  \/ PoolClear

SpecPool == InitPool /\ [][NextPool]_vars

(***************************************************************************)
(* SpecCmd: one cmd_notify, a process of its own, on a cache directory     *)
(* that earlier requests may have filled.                                  *)
(***************************************************************************)
InitCmd ==
  /\ FunIdle
  /\ SelIdle
  /\ CacheIdle
  /\ ProvIdle
  /\ RendIdle
  /\ notify_env \in CmdRequests
  /\ notify_files \in CmdFiles(notify_env)
  /\ notify_stored = EmptyDict
  /\ notify_count = 0
  /\ notify_last = NoNotify

CmdNotifyRun(r, read_ok, write_ok) ==
  /\ notify_count = 0
  /\ \E atime \in [DOMAIN notify_files -> {0}] :
       \E o \in CmdNotify(notify_files, atime, notify_env.env,
                          notify_env.parsed, notify_env.event_config,
                          notify_env.event, r, read_ok, write_ok) :
         /\ notify_files' = o.files
         /\ notify_last' = [o EXCEPT !.files = notify_files]
  /\ notify_count' = 1
  /\ UNCHANGED <<notify_env, notify_stored>>
  /\ UNCHANGED <<selVars, cacheVars, provVars, rendVars, funVars>>

NextCmd ==
  \E r \in SynthResults(notify_env.env),
     read_ok \in BOOLEAN, write_ok \in BOOLEAN :
       CmdNotifyRun(r, read_ok, write_ok)

SpecCmd == InitCmd /\ [][NextCmd]_vars

(***************************************************************************)
(* Properties of the cache.                                                *)
(***************************************************************************)
PutReturned == cache_last.op = "put"

\* C1: whenever a put has returned, entry_count <= max_entries and
\* size_bytes <= max_size_bytes.
C1_CapsHoldAfterPut ==
  PutReturned =>
    /\ EntryCount(index) <= max_entries
    /\ SizeBytes(index) <= max_size_bytes

\* C2: every entry a put evicts has, when it is evicted, the smallest
\* last-access time of the index; and a get that returns bytes leaves its
\* entry with a last-access time above every other entry's, so that it is
\* evicted after them.
C2_StrictLRU ==
  /\ \A i \in 1..Len(cache_last.log) :
       LET e == cache_last.log[i]
       IN  \A j \in DOMAIN e.index :
             e.index[e.key].last_accessed <= e.index[j].last_accessed
  /\ (cache_last.op = "get" /\ cache_last.ret # Null) =>
       LET key == CacheKey(cache_last.text, cache_last.voice, cache_last.model)
       IN  /\ key \in DOMAIN index
           /\ \A j \in (DOMAIN index) \ {key} :
                 index[key].last_accessed > index[j].last_accessed

\* A put has evicted the older of two entries; the one it kept was loaded
\* from the directory and later read by a get.
C2_Witness ==
  /\ PutReturned
  /\ Len(cache_last.log) = 1
  /\ LET e == cache_last.log[1]
     IN  \E j \in (DOMAIN e.index) \ {e.key} :
           /\ e.index[j].text = ""
           /\ e.index[j].last_accessed > 1
           /\ e.index[e.key].last_accessed < e.index[j].last_accessed

\* C3: when put(t, v, m, b) has returned without a write failure, get(t, v, m)
\* returns exactly b, also when the triple was cached with other bytes.
C3_PutThenGet ==
  (PutReturned /\ cache_last.write_ok) =>
    Get(index, files, now + 1, cache_last.text, cache_last.voice,
        cache_last.model, TRUE).ret = [bytes |-> cache_last.audio]

\* A put has replaced the bytes cached under its triple, nothing evicted.
C3_Witness ==
  /\ PutReturned /\ cache_last.write_ok
  /\ cache_last.prior # Null
  /\ cache_last.prior.size_bytes = 0
  /\ cache_last.prior.text = cache_last.text
  /\ cache_last.audio = <<1>>
  /\ cache_last.log = <<>>
  /\ files[CachePath(CacheKey(cache_last.text, cache_last.voice,
                              cache_last.model))] = <<1>>

(***************************************************************************)
(* Properties of the selector.                                             *)
(***************************************************************************)
Calls == {<<host_a, selection_a>>, <<host_b, selection_b>>}

Returned == {c \in Calls : c[2] # Null}

\* Position of a tier in the quality order, 1 the highest quality.
Rank(tier) == CHOOSE i \in 1..Len(QUALITY_ORDER) : QUALITY_ORDER[i] = tier

\* C5: for every available memory, accelerator flag, preference and mode,
\* select() returns a registered model, and that model either needs no more
\* memory than max(0, available - 2.0 GB) or is the fallback tier, POCKET.
C5_SelectionTotalFit ==
  \A c \in Returned :
    /\ c[2].tier \in ModelTier
    /\ c[2].model = MODELS[c[2].tier]
    /\ \/ c[2].model.estimated_memory_gb
            <= Max(0, c[1].available_memory_gb - 20)
       \/ c[2].model.model_id = "mlx-community/pocket-tts"

\* A call returned a tier above POCKET that fits, and the other call
\* returned POCKET although POCKET does not fit.
C5_Witness ==
  /\ selection_a # Null /\ selection_b # Null
  /\ selection_a.tier = "SPARK"
  /\ selection_a.model.estimated_memory_gb
       <= Max(0, host_a.available_memory_gb - 20)
  /\ selection_b.tier = "POCKET"
  /\ selection_b.model.estimated_memory_gb
       > Max(0, host_b.available_memory_gb - 20)

\* C6: when host B has at least the available memory of host A and an
\* accelerator whenever A has one, the tier selected on B (same preference,
\* same mode) is not of strictly lower quality than the tier selected on A.
C6_SelectionMonotone ==
  ( /\ selection_a # Null /\ selection_b # Null
    /\ host_b.available_memory_gb >= host_a.available_memory_gb
    /\ (host_a.metal_available => host_b.metal_available) )
  => Rank(selection_b.tier) <= Rank(selection_a.tier)

\* B has more memory than A and gets a strictly higher tier, under a manual
\* preference that fits on neither host.
C6_Witness ==
  /\ selection_a # Null /\ selection_b # Null
  /\ mode = "MANUAL"
  /\ user_preference = "mlx-community/Qwen3-TTS-12Hz-1.7B-VoiceDesign-bf16"
  /\ host_b.available_memory_gb > host_a.available_memory_gb
  /\ host_a.metal_available /\ host_b.metal_available
  /\ selection_a.tier = "POCKET"
  /\ selection_b.tier = "SPARK"

\* C7: whenever available memory minus 2.0 GB is below POCKET's footprint of
\* 1.0 GB (2.5 GB available, for one), select() returns POCKET with the reason
\* "fallback (resource constraints)", whatever the preference and the mode.
C7_LowMemoryFallback ==
  \A c \in Returned :
    c[1].available_memory_gb - 20 < 10
    => /\ c[2].tier = "POCKET"
       /\ c[2].model.model_id = "mlx-community/pocket-tts"
       /\ c[2].reason = "fallback (resource constraints)"

\* 2.5 GB, no accelerator, SPARK requested in MANUAL mode: POCKET returned.
C7_Witness ==
  /\ host_a = [available_memory_gb |-> 25, metal_available |-> FALSE]
  /\ mode = "MANUAL"
  /\ user_preference = "mlx-community/Spark-TTS-0.5B-bf16"
  /\ selection_a # Null
  /\ selection_a.tier = "POCKET"
  /\ selection_a.reason = "fallback (resource constraints)"

\* Whether a spec fits a host: its memory is within the usable memory and
\* its accelerator requirement is met.
Fits(spec, system_info) ==
  /\ spec.estimated_memory_gb <= Max(0, system_info.available_memory_gb - 20)
  /\ (~spec.requires_metal \/ system_info.metal_available)

\* The preference of the run names a registered model that fits the host.
PreferenceFits(system_info) ==
  /\ \E t \in ModelTier : MODELS[t].model_id = user_preference
  /\ \A t \in ModelTier :
       MODELS[t].model_id = user_preference => Fits(MODELS[t], system_info)

\* C17: in MANUAL mode with a preference that is registered and fits, select()
\* returns exactly that model with the reason "user preference"; with a
\* preference that is unknown or does not fit, the result is the one
\* auto-selection returns for the same host; in AUTO mode the result is the
\* one of auto-selection whatever the preference.
C17_ManualPreference ==
  \A c \in Returned :
    LET auto == AutoSelect(c[1], Max(0, c[1].available_memory_gb - 20))
    IN  /\ (mode = "MANUAL" /\ PreferenceFits(c[1]))
             => /\ c[2].model.model_id = user_preference
                /\ c[2].model = MODELS[c[2].tier]
                /\ c[2].reason = "user preference"
                /\ c[2].system_info = c[1]
        /\ (mode = "MANUAL" /\ ~PreferenceFits(c[1])) => c[2] = auto
        /\ mode = "AUTO" => c[2] = auto

\* SPARK_QUANTIZED requested in MANUAL mode: host A has room for a higher
\* tier and still gets the preference, host B cannot run it and gets what
\* auto-selection returns.
C17_Witness ==
  /\ selection_a # Null /\ selection_b # Null
  /\ mode = "MANUAL"
  /\ user_preference = "mlx-community/Spark-TTS-0.5B-8bit"
  /\ host_a = [available_memory_gb |-> 160, metal_available |-> TRUE]
  /\ selection_a.tier = "SPARK_QUANTIZED"
  /\ selection_a.reason = "user preference"
  /\ ~host_b.metal_available
  /\ selection_b.tier = "POCKET"
  /\ selection_b.reason = "plenty of RAM"

\* C18: a result of auto-selection is the first tier of the quality order that
\* fits: unless it is the fallback, the returned model fits the host (memory
\* and accelerator), no tier of strictly higher quality fits the host, and
\* with 16 GB available, an accelerator and no preference the highest tier,
\* VOICE_DESIGN, is returned.
C18_AutoFirstFit ==
  \A c \in Returned :
    /\ c[2].reason # "user preference"
         => /\ c[2].reason # "fallback (resource constraints)"
                 => Fits(c[2].model, c[1])
            /\ \A t \in ModelTier :
                 Rank(t) < Rank(c[2].tier) => ~Fits(MODELS[t], c[1])
    /\ ( /\ c[1] = [available_memory_gb |-> 160, metal_available |-> TRUE]
         /\ user_preference = None )
         => c[2].tier = "VOICE_DESIGN"

\* Auto-selection passed over a tier that does not fit and returned a lower
\* one on host A, and returned the highest tier on the 16 GB host B.
C18_Witness ==
  /\ selection_a # Null /\ selection_b # Null
  /\ user_preference = None
  /\ host_a = [available_memory_gb |-> 60, metal_available |-> TRUE]
  /\ selection_a.tier = "SPARK"
  /\ host_b = [available_memory_gb |-> 160, metal_available |-> TRUE]
  /\ selection_b.tier = "VOICE_DESIGN"

\* What C25 says of the registry but for the first tier of the order: the
\* order holds every tier and ends with POCKET, and the fallback model is
\* POCKET, which needs no accelerator and at most 1.0 GB, the least of all
\* tiers.
RegistryShape ==
  /\ {QUALITY_ORDER[i] : i \in 1..Len(QUALITY_ORDER)} = ModelTier
  /\ QUALITY_ORDER[Len(QUALITY_ORDER)] = "POCKET"
  /\ get_fallback_model = MODELS["POCKET"]
  /\ ~get_fallback_model.requires_metal
  /\ get_fallback_model.estimated_memory_gb <= 10
  /\ \A t \in ModelTier :
       get_fallback_model.estimated_memory_gb <= MODELS[t].estimated_memory_gb

C26_StaleEntryRemoved ==
  [][cache_last'.op = "get" =>
       LET key == CacheKey(cache_last'.text, cache_last'.voice,
                           cache_last'.model)
       IN  /\ (key \in DOMAIN index /\ index[key].path \notin DOMAIN files) =>
                /\ cache_last'.ret = Null
                /\ DOMAIN index' = (DOMAIN index) \ {key}
                /\ \A k \in DOMAIN index' : index'[k] = index[k]
                /\ EntryCount(index') = EntryCount(index) - 1
                /\ SizeBytes(index') = SizeBytes(index) - index[key].size_bytes
                /\ files' = files
           /\ key \notin DOMAIN index =>
                /\ cache_last'.ret = Null
                /\ UNCHANGED <<index, files, now>>]_vars

\* A get has found its entry without its file and has removed it; another
\* entry, with bytes, is still in the index.
C26_Witness ==
  /\ cache_last.op = "get"
  /\ cache_last.prior # Null
  /\ cache_last.prior.size_bytes > 0
  /\ cache_last.ret = Null
  /\ CacheKey(cache_last.text, cache_last.voice, cache_last.model)
       \notin DOMAIN index
  /\ cache_last.prior.path \notin DOMAIN files
  /\ \E k \in DOMAIN index : index[k].size_bytes > 0

\* C27: a put whose write of the cache file fails returns without raising
\* and neither inserts nor replaces the index entry of its key: a key that
\* was absent is still absent, an entry still there is the one of before,
\* and entry_count and size_bytes have not grown.
C27_WriteFailureSwallowed ==
  [][(cache_last'.op = "put" /\ ~cache_last'.write_ok) =>
       LET key == CacheKey(cache_last'.text, cache_last'.voice,
                           cache_last'.model)
       IN  /\ ~hung'
           /\ key \notin DOMAIN index => key \notin DOMAIN index'
           /\ key \in DOMAIN index' => index'[key] = index[key]
           /\ EntryCount(index') <= EntryCount(index)
           /\ SizeBytes(index') <= SizeBytes(index)]_vars

\* A put of two bytes under a new key has failed to write, after evicting
\* an entry to make room: the key is absent.
C27_Witness ==
  /\ cache_last.op = "put"
  /\ ~cache_last.write_ok
  /\ cache_last.prior = Null
  /\ cache_last.audio # <<>>
  /\ Len(cache_last.log) = 1
  /\ CacheKey(cache_last.text, cache_last.voice, cache_last.model)
       \notin DOMAIN index

\* C28: when a new AudioCache is constructed on the directory, every entry
\* the old instance had put and whose file is still there is rebuilt under
\* the same key, with empty text, voice and model and the size of the file,
\* and a get of its triple on the new instance returns the file's bytes; the
\* new index holds one entry for each file, its size the file's; and the
\* entries a later put evicts, rebuilt ones included, are the least recently
\* accessed of the index.
C28_RestartReconstruction ==
  /\ [][cache_last'.op = "restart" =>
          /\ \A k \in DOMAIN index :
               ( /\ index[k].path \in DOMAIN files
                 /\ k = CacheKey(index[k].text, index[k].voice, index[k].model) )
               => /\ k \in DOMAIN index'
                  /\ index'[k].text = "" /\ index'[k].voice = ""
                  /\ index'[k].model = ""
                  /\ index'[k].size_bytes = Len(files[index[k].path])
                  /\ Get(index', files', now' + 1, index[k].text, index[k].voice,
                         index[k].model, TRUE).ret
                       = [bytes |-> files[index[k].path]]
          /\ EntryCount(index') = Cardinality(DOMAIN files)
          /\ \A k \in DOMAIN index' :
               index'[k].size_bytes = Len(files[index'[k].path])]_vars
  /\ [](\A i \in 1..Len(cache_last.log) :
          LET e == cache_last.log[i]
          IN  \A j \in DOMAIN e.index :
                e.index[e.key].last_accessed <= e.index[j].last_accessed)

\* After a restart, a get has returned the byte an earlier instance had put:
\* the entry it found was a rebuilt one.
C28_Witness ==
  /\ cache_last.op = "get"
  /\ cache_last.ret = [bytes |-> <<1>>]
  /\ cache_last.prior # Null
  /\ cache_last.prior.text = ""
  /\ cache_last.prior.size_bytes = 1

\* The index and the directory agree: the files are the files of the index
\* entries, each named after its key and as long as its entry says.
Consistent(index_, files_) ==
  /\ {index_[k].path : k \in DOMAIN index_} = DOMAIN files_
  /\ \A k \in DOMAIN index_ :
       /\ index_[k].path = CachePath(k)
       /\ index_[k].size_bytes = Len(files_[index_[k].path])

\* No unlink made by the evictions of the log has failed.
AllUnlinked(log) == \A i \in 1..Len(log) : log[i].unlinked

\* C34: the index and the directory agree after construction, and a get, a
\* put that returns, or a clear, without I/O failure, on an index and a
\* directory that agree, leaves them agreeing; the entries evicted by the
\* put are gone from the index and their files from the directory (unless
\* it is the entry put), and after the clear both are empty.
C34_IndexMatchesDirectory ==
  /\ [](cache_last.op = "init" => Consistent(index, files))
  /\ [][(Consistent(index, files)
           /\ \/ cache_last'.op = "get"
              \/ /\ cache_last'.op = "put"
                 /\ cache_last'.write_ok
                 /\ AllUnlinked(cache_last'.log)
              \/ CacheClear({}))
         => /\ Consistent(index', files')
            /\ cache_last'.op = "put" =>
                 \A i \in 1..Len(cache_last'.log) :
                    LET k == cache_last'.log[i].key
                    IN  \/ k = CacheKey(cache_last'.text, cache_last'.voice,
                                        cache_last'.model)
                        \/ (k \notin DOMAIN index'
                              /\ CachePath(k) \notin DOMAIN files')
            /\ cache_last'.op = "clear" =>
                 (index' = EmptyDict /\ files' = EmptyDict)]_vars

\* A put without failure has evicted an entry and stored its own, and the
\* index and the directory agree.
C34_Witness ==
  /\ cache_last.op = "put"
  /\ cache_last.write_ok
  /\ Len(cache_last.log) >= 1
  /\ AllUnlinked(cache_last.log)
  /\ CacheKey(cache_last.text, cache_last.voice, cache_last.model)
       \in DOMAIN index
  /\ Consistent(index, files)

\* C36: a put comes to its end whatever max_entries, max_size_bytes and the
\* index are, max_entries = 0 and an empty index included: no put is inside
\* an eviction loop that does not end.
C36_PutTerminates == ~hung /\ cache_last.op # "put_hung"

\* C37: a put evicts no entry at a moment when the index holds fewer than
\* max_entries entries and the sizes of the entries in the index at that
\* moment plus the size of the incoming audio are within max_size_bytes.
C37_NoOverEviction ==
  cache_last.op = "put" =>
    \A i \in 1..Len(cache_last.log) :
       ~ /\ EntryCount(cache_last.log[i].index) < max_entries
         /\ SizeBytes(cache_last.log[i].index) + Len(cache_last.audio)
              <= max_size_bytes

\* C16: equal triples have equal keys, and two triples that differ in a
\* component, also when a field holds the delimiter or the components are
\* exchanged, have different key strings and different cache files.
C16_KeyUnambiguous ==
  keyed # Null =>
    /\ triple_a = triple_b =>
         keyed.content_a = keyed.content_b /\ keyed.path_a = keyed.path_b
    /\ triple_a # triple_b =>
         keyed.content_a # keyed.content_b /\ keyed.path_a # keyed.path_b

(***************************************************************************)
(* Properties of the provider.                                             *)
(***************************************************************************)
Synthesized == synth_last.result # "none"

FallbackId == get_fallback_model.model_id

\* C8: in one synthesize call _generate_with_model runs at most twice; a
\* first run that succeeds is the only run and its bytes are returned; a
\* first run that fails on a model other than the fallback is followed by
\* exactly one run on the fallback model, whose bytes are returned when it
\* succeeds; TTSError is raised only when that second run failed, or when
\* the single run was on the fallback model and failed.
C8_FallbackChain ==
  Synthesized =>
    LET calls == synth_last.calls
    IN  /\ Len(calls) <= 2
        /\ (Len(calls) >= 1 /\ calls[1].ok) =>
             /\ Len(calls) = 1
             /\ synth_last.result = "ok"
             /\ synth_last.audio = calls[1].audio
        /\ (Len(calls) >= 1 /\ ~calls[1].ok /\ calls[1].model # FallbackId) =>
             /\ Len(calls) = 2
             /\ calls[2].model = FallbackId
             /\ calls[2].ok =>
                  /\ synth_last.result = "ok"
                  /\ synth_last.audio = calls[2].audio
        /\ (Len(calls) >= 1 /\ ~calls[1].ok /\ calls[1].model = FallbackId) =>
             Len(calls) = 1
        /\ synth_last.result = "TTSError" =>
             \/ Len(calls) = 2 /\ ~calls[2].ok
             \/ Len(calls) = 1 /\ ~calls[1].ok /\ calls[1].model = FallbackId

\* C29: on one provider select() is called at most once, in the first
\* synthesize call; a call that does not select runs the stored model spec
\* first; select() is given MANUAL exactly when the provider has a model id.
C29_SelectOnce ==
  /\ select_calls <= 1
  /\ synth_last.selected =>
       /\ synth_calls = 1
       /\ (synth_last.mode = "MANUAL") <=> Truthy(prov_model_id)
  /\ (Synthesized /\ ~synth_last.selected) =>
       /\ synth_last.before # None
       /\ Len(synth_last.calls) >= 1
       /\ synth_last.calls[1].model = MODELS[synth_last.before].model_id

\* C30: every run of _generate_with_model in a synthesize call, the run on
\* the fallback model included, is given the provider's voice when it has
\* one, else the default voice of the model it runs, else no voice.
C30_VoicePassed ==
  Synthesized =>
    \A i \in 1..Len(synth_last.calls) :
       LET call == synth_last.calls[i]
           tier == CHOOSE t \in ModelTier : MODELS[t].model_id = call.model
       IN  call.engine_called =>
             call.voice = IF Truthy(prov_voice) THEN prov_voice
                          ELSE IF Truthy(MODELS[tier].default_voice)
                            THEN MODELS[tier].default_voice
                          ELSE None

\* The provider has switched to the fallback model: the model selected
\* (self._selected_result) is another one and current_model is the fallback.
Switched ==
  /\ synth_last.selected_result # None
  /\ synth_last.selected_result # FallbackId
  /\ model_spec # None
  /\ MODELS[model_spec].model_id = FallbackId

\* C38: a synthesize call that made a second run, on the fallback model,
\* leaves current_model the fallback model, whether that run succeeded or
\* not; once the provider has switched, current_model stays the fallback
\* model, and every later synthesize call makes exactly one run of
\* _generate_with_model, on the fallback model and never on the model first
\* selected; after a synthesize that returned bytes, current_model is the
\* model of the run that produced them.
C38_FallbackSticky ==
  /\ [](Len(synth_last.calls) = 2 => Switched)
  /\ [](synth_last.result = "ok" =>
          LET run == synth_last.calls[Len(synth_last.calls)]
          IN  /\ run.ok
              /\ run.audio = synth_last.audio
              /\ MODELS[model_spec].model_id = run.model)
  /\ [][Switched =>
          /\ Switched'
          /\ Len(synth_last'.calls) = 1
          /\ synth_last'.calls[1].model = FallbackId
          /\ synth_last'.calls[1].model # synth_last.selected_result
          /\ ~synth_last'.selected]_vars

\* After a call that switched to the fallback model and failed, a second
\* call has made one run, on the fallback model, and returned its bytes.
C38_Witness ==
  /\ synth_calls = 2
  /\ Switched
  /\ synth_last.before = "POCKET"
  /\ Len(synth_last.calls) = 1
  /\ synth_last.calls[1].engine_called
  /\ synth_last.result = "ok"
  /\ synth_last.audio = <<1>>

\* A first run on a larger model failed in the engine and the run on the
\* fallback model produced the bytes returned.
C8_Witness ==
  /\ synth_last.result = "ok"
  /\ Len(synth_last.calls) = 2
  /\ synth_last.calls[1].engine_called
  /\ ~synth_last.calls[1].ok
  /\ synth_last.calls[1].model # FallbackId
  /\ synth_last.calls[2].ok
  /\ synth_last.audio = <<1>>

\* C14: when a call of _generate_with_model is over, whatever the engine
\* did, none of the scratch files made for it (the placeholder and the
\* engine's output file) is left.
C14_NoScratchLeft ==
  \A i \in 1..Len(synth_last.calls) : synth_last.calls[i].leftover = {}

(***************************************************************************)
(* Properties of the notify flow.                                          *)
(***************************************************************************)
\* C4: a request for a text that an earlier request with the same
\* configuration synthesized and stored is served from the cache: the stored
\* bytes are given to play and _generate_with_model is not called.
C4_SecondRequestFromCache ==
  notify_last.stored_before # Null =>
    /\ notify_last.source = "cache"
    /\ notify_last.given = notify_last.stored_before
    /\ notify_last.calls = <<>>

(***************************************************************************)
(* Properties of cmd_notify.                                               *)
(***************************************************************************)
\* The request has been served for an event.
CmdDone == notify_count = 1 /\ notify_env.parsed = "event"

\* Every call of _generate_with_model of the request has failed.
SynthesisFailed ==
  /\ notify_last.calls # <<>>
  /\ ~notify_last.calls[Len(notify_last.calls)].ok

\* The playback calls of the request.
Playbacks ==
  {i \in 1..Len(notify_last.trace) :
     notify_last.trace[i] \in {"play", "play_earcon"}}

\* C21: for an enabled event configured with mode earcon, notify calls
\* play_earcon and exits with status 0 whatever play_earcon does (earcon file
\* missing, player missing, player failing): it neither fails nor raises.
C21_EarconNeverFails ==
  (CmdDone /\ notify_env.event_config.enabled
     /\ notify_env.event_config.mode = "earcon") =>
    /\ notify_last.trace = <<"play_earcon">>
    /\ notify_last.status = 0
    /\ notify_last.exc = None

\* C22: on a cache hit the cached bytes are played, the provider is not
\* called and the cache directory is left as it was; on a miss the calls are
\* synthesize, then put, then play, the put is made only after a synthesis
\* that succeeded, and it is keyed by the id of the model that produced the
\* audio, the fallback tier's one after a fallback.
C22_SpeechPathOrder ==
  (CmdDone /\ notify_last.trace # <<>> /\ notify_last.trace[1] = "get") =>
    /\ notify_last.hit =>
         /\ notify_last.trace = <<"get", "play">>
         /\ \E p \in DOMAIN notify_last.files :
              notify_last.given = [bytes |-> notify_last.files[p]]
         /\ notify_last.calls = <<>>
         /\ notify_files = notify_last.files
    /\ ~notify_last.hit =>
         /\ notify_last.trace \in {<<"get", "synthesize">>,
                                   <<"get", "synthesize", "play_earcon">>,
                                   <<"get", "synthesize", "put", "play">>}
         /\ (\E i \in 1..Len(notify_last.trace) : notify_last.trace[i] = "put")
              => /\ ~SynthesisFailed
                 /\ notify_last.calls # <<>>
                 /\ notify_last.cache_model
                      = notify_last.calls[Len(notify_last.calls)].model
                 /\ (Len(notify_last.calls) = 2
                       => notify_last.cache_model = get_fallback_model.model_id)
                 /\ notify_last.stored =>
                      LET path == CachePath(CacheKey(notify_last.text, "alba",
                                    notify_last.calls[Len(notify_last.calls)].model))
                      IN  /\ path \in DOMAIN notify_files
                          /\ notify_last.given = [bytes |-> notify_files[path]]
         /\ notify_last.stored
              => \E i \in 1..Len(notify_last.trace) : notify_last.trace[i] = "put"

\* C23: for an event whose configuration is disabled or whose mode is
\* silent, notify does nothing: no text is produced, no earcon is played,
\* there is no cache lookup, selection, synthesis or playback, the cache
\* directory is as before, and the status is 0.
C23_DisabledOrSilentNoAction ==
  (CmdDone /\ (~notify_env.event_config.enabled
                 \/ notify_env.event_config.mode = "silent")) =>
    /\ notify_last.text = None
    /\ notify_last.trace = <<>>
    /\ notify_last.calls = <<>>
    /\ notify_last.given = Null
    /\ notify_files = notify_last.files
    /\ notify_last.status = 0
    /\ notify_last.exc = None

\* A disabled event whose mode is earcon, and with a summary to read, has
\* been served with no call at all.
C23_Witness ==
  /\ CmdDone
  /\ ~notify_env.event_config.enabled
  /\ notify_env.event_config.mode = "earcon"
  /\ notify_env.event.summary # <<>>
  /\ notify_last.trace = <<>>
  /\ notify_last.status = 0

\* C24: when synthesis fails with a TTSError, notify tries the agent-yield
\* earcon and reports success if and only if that earcon was played; when
\* the play of cached or synthesized audio fails with PlaybackError, notify
\* returns 1 and makes no other playback.
C24_ErrorPolicy ==
  CmdDone =>
    /\ SynthesisFailed =>
         /\ notify_last.trace = <<"get", "synthesize", "play_earcon">>
         /\ notify_last.status = 0 <=> notify_last.rend = "True"
    /\ (notify_last.rend = "PlaybackError"
          /\ notify_last.trace[Len(notify_last.trace)] = "play") =>
         /\ notify_last.status = 1
         /\ notify_last.exc = None
         /\ Cardinality(Playbacks) = 1

\* Both engine calls of a request have failed and the earcon was not there:
\* status 1.
C24_Witness ==
  /\ CmdDone
  /\ Len(notify_last.calls) = 2
  /\ SynthesisFailed
  /\ notify_last.rend = "False"
  /\ notify_last.status = 1

\* C40: a request that has come to _synthesize_and_play ends with the
\* function returning 0 or 1, whatever the cache lookup, the detection and
\* selection, the synthesis, the playback and the last-resort earcon do: no
\* exception leaves the function.
C40_SpeechPathReturns ==
  (CmdDone /\ notify_last.trace # <<>> /\ notify_last.trace[1] = "get") =>
    /\ notify_last.exc = None
    /\ notify_last.status \in {0, 1}

(***************************************************************************)
(* Properties of the renderer.                                             *)
(***************************************************************************)
\* C9: at most one player process of the renderer is alive and at most one
\* of its scratch files exists; an alive process is the one the handle
\* holds, an existing scratch file the one the scratch reference names.
C9_OnePlayerOneScratch ==
  /\ Cardinality(Alive(procs)) <= 1
  /\ Cardinality(ScratchFiles(fs)) <= 1
  /\ \A p \in Alive(procs) : p = current_process
  /\ \A f \in ScratchFiles(fs) : f = temp_file

\* C10: when a play called while the handle's player was running returns,
\* that player is not alive, the scratch file of before is gone, exactly one
\* player is alive, and exactly one scratch file exists, with the new bytes.
C10_PlayReplaces ==
  (rend_last.op = "play" /\ rend_last.result = "ok"
     /\ rend_last.call.prev_active) =>
    /\ rend_last.call.prev_proc \notin Alive(procs)
    /\ rend_last.call.prev_file \notin DOMAIN fs
    /\ Cardinality(Alive(procs)) = 1
    /\ ScratchFiles(fs) = {temp_file}
    /\ temp_file \in DOMAIN fs /\ fs[temp_file] = rend_last.call.audio

\* C19: when stop() returns, the player the handle held, if it was running,
\* has been terminated (it has exited or has been sent the forced kill), the
\* handle is empty, the scratch file, if there was one, is deleted and its
\* reference is empty; a stop() called when nothing is playing and no scratch
\* file exists changes nothing.
C19_StopPostcondition ==
  [][rend_last'.op = "stop" =>
       /\ Playing => procs'[current_process] # "running"
       /\ current_process' = NoProcess
       /\ temp_file # Null => temp_file \notin DOMAIN fs'
       /\ temp_file' = Null
       /\ (current_process = NoProcess /\ temp_file = Null)
            => UNCHANGED <<lock, current_process, temp_file, procs, fs>>]_vars

\* C11: a play_earcon called when the earcon file does not exist returns
\* False in that step, raises nothing, and leaves the lock, the handle, the
\* scratch reference, the players and the files as they were.
C11_MissingEarconNoEffect ==
  [][\A t \in Threads :
       (/\ th[t].pc = "idle"
        /\ rend_last'.thread = t
        /\ rend_last'.op \in {"earcon_check", "play_earcon"}
        /\ EarconPath \notin DOMAIN fs) =>
         /\ rend_last'.op = "play_earcon"
         /\ rend_last'.result = "False"
         /\ th'[t].pc = "idle"
         /\ UNCHANGED <<lock, current_process, temp_file, procs, fs>>]_vars

\* play_earcon has returned False while a player was running on a scratch
\* file.
C11_Witness ==
  /\ rend_last.op = "play_earcon"
  /\ rend_last.result = "False"
  /\ EarconPath \notin DOMAIN fs
  /\ Playing
  /\ temp_file \in DOMAIN fs

\* C12: the operations exclude one another: while a thread is between the
\* check and the use of wait, or between the file check and the playback of
\* play_earcon, no other thread's operation takes a step and the handle
\* wait has seen does not become empty; wait never finds None where it has
\* seen a process.
C12_MutualExclusion ==
  /\ rend_last.result # "AttributeError"
  /\ \A t \in Threads :
       /\ th[t].pc \in {"wait_checked", "earcon_checked"} =>
            rend_last.thread \in {t, ""}
       /\ th[t].pc = "wait_checked" => current_process # NoProcess

(***************************************************************************)
(* Properties of the detector.                                             *)
(***************************************************************************)
\* C13: detect() raises nothing and returns a SystemInfo whatever the
\* probes do; when the memory probe fails the total is psutil's, when the
\* MLX probe fails Metal is not available, and when the chip probes fail
\* the chip name is None.
C13_DetectNeverRaises ==
  detected # Null =>
    /\ detected.raised = None
    /\ detected.info # Null
    /\ (~probes.sysctl \/ probes.memsize # "ok") =>
         detected.info.total_memory_gb = probes.psutil_total
    /\ probes.mlx \in {"import_error", "raises"} =>
         ~detected.info.metal_available
    /\ ((~probes.sysctl \/ probes.brand # "ok")
          /\ probes.profiler \in {"absent", "nonzero"}) =>
         detected.info.chip_name = None

(***************************************************************************)
(* Properties of the broker.                                               *)
(***************************************************************************)
\* C15: a text of at most 200 characters is returned as it is; for a longer
\* one the result is a prefix of the text of at most 200 characters
\* followed by TRUNCATION_SUFFIX, so it is at most 200 plus the suffix long.
C15_LimitLength ==
  limited # Null =>
    IF Len(summary) <= 200 THEN limited.text = summary
    ELSE /\ \E k \in 0..200 :
              limited.text = SubSeq(summary, 1, k) \o TRUNCATION_SUFFIX
         /\ Len(limited.text) <= 200 + Len(TRUNCATION_SUFFIX)

\* A text of more than 200 characters was cut at a space past the middle.
C15_Witness ==
  /\ limited # Null
  /\ Len(summary) > 200
  /\ Len(limited.text) = 149 + Len(TRUNCATION_SUFFIX)
  /\ summary[150] = " "

\* The positions, counted from 0, of the spaces of the summary at or before
\* the budget: cutting at position p keeps p characters.
Boundaries ==
  {p \in 0..MAX_SUMMARY_LENGTH : p < Len(summary) /\ summary[p + 1] = " "}

\* C32: a summary of more than 200 characters is cut at its last space at or
\* before position 200, and at 200 characters only when there is no such
\* space or the last one is before position 100; a last space at position
\* 100 and one at position 200 are cut at.
C32_WordBoundary ==
  (limited # Null /\ Len(summary) > MAX_SUMMARY_LENGTH) =>
    LET last == CHOOSE p \in Boundaries : \A q \in Boundaries : q <= p
    IN  IF Boundaries = {} \/ last < MAX_SUMMARY_LENGTH \div 2
          THEN limited.text =
                 SubSeq(summary, 1, MAX_SUMMARY_LENGTH) \o TRUNCATION_SUFFIX
          ELSE limited.text = SubSeq(summary, 1, last) \o TRUNCATION_SUFFIX

\* The summary the statement names for the call: event.summary if there is
\* one, otherwise the payload field of the source.
NamedSummary ==
  LET field == CASE broker_call.source = "CLAUDE" -> "reason"
                 [] broker_call.source = "CODEX" -> "last-assistant-message"
                 [] broker_call.source = "OPENCODE" -> "summary"
  IN  IF broker_call.summary # <<>> THEN broker_call.summary
      ELSE IF field \in DOMAIN broker_call.payload
        THEN broker_call.payload[field]
      ELSE <<>>

\* The templates built in for the kinds of event.
BuiltInTemplate ==
  CASE broker_call.event_type = "AGENT_YIELD" -> "Ready."
    [] broker_call.event_type = "DECISION_REQUIRED" -> "I need your input."
    [] broker_call.event_type = "ERROR_RETRY" -> "I hit an error. Please review."

\* C35: get_text_for_event returns None exactly when the event is disabled,
\* silent or in earcon mode; otherwise the length-limited summary when
\* read_summary is set and there is a summary, event.summary before the
\* payload field of the source; otherwise the configured template, or the
\* built-in one of the event kind when the template is empty.
C35_TextChoice ==
  broker_text # Null =>
    LET config == broker_call.event_config
        quiet == ~config.enabled \/ config.mode \in {"silent", "earcon"}
    IN  /\ (broker_text.text = None) <=> quiet
        /\ ~quiet =>
             broker_text.text =
               IF config.read_summary /\ NamedSummary # <<>>
                 THEN Join(LimitLength(NamedSummary))
               ELSE IF config.template # "" THEN config.template
               ELSE BuiltInTemplate

\* With no event.summary the Codex payload's last-assistant-message was
\* returned, the payload holding the other two fields as well.
C35_Witness ==
  /\ broker_text # Null
  /\ broker_call.summary = <<>>
  /\ broker_call.source = "CODEX"
  /\ DOMAIN broker_call.payload = PayloadKeys
  /\ broker_text.text = "l"

(***************************************************************************)
(* Properties of the renderer's volume.                                    *)
(***************************************************************************)
\* C20: the volume of a renderer is between 0.0 and 1.0 after construction
\* with any value and after every later update, those made through
\* AudioRendererPool.get_renderer included, and the value handed to the
\* player is within that range.
C20_VolumeClamped ==
  /\ pool_renderer # Null
       => (0 <= pool_renderer.volume /\ pool_renderer.volume <= 10)
  /\ pool_last.op = "play"
       => (0 <= pool_last.passed /\ pool_last.passed <= 10)

(***************************************************************************)
(* Properties of play_streaming.                                           *)
(***************************************************************************)
\* The player the handle holds has not exited.
HandleBusy == current_process # NoProcess /\ procs[current_process] # "exited"

\* C31: a play_streaming call takes a new scratch path only when the
\* renderer has none and keeps the path it has; unless the write fails the
\* scratch file holds the chunk of the call when it returns; a player is
\* started only when the handle is empty or its process has exited, and in
\* that case one is started, not blocking, unless afplay cannot be started;
\* no player that was running is running no more after the call.
C31_PlayStreaming ==
  [][rend_last'.op = "play_streaming" =>
       /\ temp_file # Null => temp_file' = temp_file
       /\ temp_file' # temp_file =>
            (temp_file = Null /\ temp_file' \notin DOMAIN fs)
       /\ rend_last'.result # "OSError" =>
            (temp_file' \in DOMAIN fs' /\ fs'[temp_file'] = rend_last'.call.audio)
       /\ DOMAIN procs' # DOMAIN procs => ~HandleBusy
       /\ (~HandleBusy /\ rend_last'.result = "ok") =>
            /\ Cardinality(DOMAIN procs' \ DOMAIN procs) = 1
            /\ current_process' \in DOMAIN procs' \ DOMAIN procs
            /\ lock' = "free"
       /\ HandleBusy => current_process' = current_process
       /\ \A p \in DOMAIN procs : procs'[p] = procs[p]]_vars

\* A second chunk has been written to the scratch file of the first while
\* the player started for the first was running.
C31_Witness ==
  /\ rend_last.op = "play_streaming"
  /\ rend_last.result = "ok"
  /\ rend_last.call.prev_active
  /\ rend_last.call.prev_file # Null
  /\ temp_file = rend_last.call.prev_file
  /\ fs[temp_file] = <<1>>
  /\ Playing

(***************************************************************************)
(* Properties of the renderer's lock.                                      *)
(***************************************************************************)
\* Thread t is inside play(blocking=True), its player running.
InBlockingPlay(t) ==
  /\ th[t].pc = "run"
  /\ th[t].op = "play"
  /\ procs[th[t].child] = "running"

\* C33: while a thread is inside play(blocking=True) and its player runs,
\* a stop(), and a play_streaming, of the other thread can be carried out
\* to its end at once, without the player having exited.
C33_OthersDoNotWait ==
  \A t \in Threads : InBlockingPlay(t) =>
    \A u \in Threads \ {t} : th[u].pc = "idle" =>
      /\ ENABLED (\E gone \in GoneSet, unlink_ok \in UnlinkSet :
                    RendStop(u, gone, unlink_ok))
      /\ (next_pid < MaxProcs /\ next_path < MaxScratch) =>
           ENABLED (\E audio \in RendAudio : RendPlayStreaming(u, audio, TRUE, TRUE))

(***************************************************************************)
(* Properties of the renderer's scratch files.                             *)
(***************************************************************************)
\* C39: no step of the renderer deletes or writes over the earcon file or
\* a file made by another process: the only files it removes or rewrites
\* are the scratch files it has made itself.
C39_OnlyOwnScratchFiles ==
  [][\A p \in DOMAIN fs :
       (p = EarconPath \/ fs[p] = ForeignBytes) =>
         (p \in DOMAIN fs' /\ fs'[p] = fs[p])]_vars
====
